---- MODULE Spec2Model ----
(***************************************************************************)
(* Identity and multi-tenancy core of the wareaxis backend:                *)
(*   - credential/token verification and the role check                    *)
(*     (app/core/security.py, app/core/dependencies.py)                    *)
(*   - the account guard in UserService.authenticate                       *)
(*   - the tenant context of TenantMiddleware (app/core/tenancy.py)        *)
(*   - the tenant provisioning workflow AuthService.register_tenant        *)
(*   - login and token refresh (AuthService.login / refresh_token)         *)
(*   - the sessions of the users API on the engine's connection pool       *)
(*     (app/core/database.py)                                              *)
(* Each part has its own specification over the shared variable list; the  *)
(* variables of the other parts stay at their initial values.              *)
(* The clock `now` counts minutes of datetime.now(timezone.utc); in the     *)
(* token specification it counts ticks of 1/TicksPerSecond second.  The    *)
(* verification functions take the instant in ticks.                       *)
(***************************************************************************)
EXTENDS Integers, Sequences, FiniteSets, TLC

VARIABLES
    now,            \* datetime.now(timezone.utc), in minutes
    credentials,    \* the bearer token a request presents, or NoCredentials
    authResult,     \* what the last evaluated dependency / verification gave
    users,          \* committed rows of the users table, per tenant schema
    lastAuth,       \* the UserService.authenticate call that has just returned
    current_tenant_id,  \* the ContextVar: its value in each request's context
    inflight,       \* the requests being handled: position in dispatch, inputs
    tenants,        \* committed rows of public.tenants
    tenant_settings,    \* committed rows of public.tenant_settings
    schemas,        \* the tenant schemas: existence, tables, roles rows
    runs,           \* the register_tenant requests: position, input, session
    pool,           \* the engine's QueuePool: idle connections, oldest first
    connections,    \* the database connections: open?, their search_path
    sessions        \* the AsyncSession of each request and the handler's position

vars == <<now, credentials, authResult, users, lastAuth,
          current_tenant_id, inflight,
          tenants, tenant_settings, schemas, runs,
          pool, connections, sessions>>

tokenVars == <<credentials, authResult>>
guardVars == <<users, lastAuth>>
ctxVars == <<current_tenant_id, inflight>>
dirVars == <<tenants, tenant_settings, schemas, runs>>
poolVars == <<pool, connections, sessions>>

\* Python's None, where a string is expected and where a TokenPayload is.
None == "None"
NoPayload == [none |-> TRUE]

(***************************************************************************)
(* Bounds of the model.                                                    *)
(***************************************************************************)
MaxExp == 3         \* exp claims (whole seconds) range over 0..MaxExp
TicksPerSecond == 2 \* resolution of the clock where tokens are verified
MaxClock == 95      \* the account-guard clock stops here
MaxFailed == 6      \* failed_login_attempts is not driven beyond this
NumRequests == 2    \* requests handled concurrently
NumRuns == 3        \* register_tenant requests, possibly concurrent
NumConnections == 2 \* connections the engine's pool may open
MaxUsers == 3       \* rows a partition's users table is grown to
StepMinutes == 15   \* the clock step where role changes are followed

(***************************************************************************)
(* Credential & token subsystem (app/core/security.py)                     *)
(***************************************************************************)
RoleCodes == {"admin", "user", "manager", "superadmin"}

\* Primary keys (uuid4): one per inserted row.
UserId(n) == <<"user", n>>
TenantId(n) == <<"tenant", n>>

TokenTypes == {"access", "refresh"}

NoCredentials == [present |-> FALSE]

\* An encoded JWT: the claims create_access_token / create_refresh_token put
\* into it, and whether its signature validates under SECRET_KEY.  A refresh
\* token carries no roles claim.
AccessTokens ==
    [present : {TRUE}, sig : {"valid", "invalid"}, sub : {UserId(0)},
     tenant_id : {"acme"}, type : {"access"}, exp : 0..MaxExp,
     roles : SUBSET RoleCodes]

RefreshTokens ==
    [present : {TRUE}, sig : {"valid", "invalid"}, sub : {UserId(0)},
     tenant_id : {"acme"}, type : {"refresh"}, exp : 0..MaxExp,
     roles : {{}}]

Tokens == AccessTokens \cup RefreshTokens

SecondsPerMinute == 60

\* timegm(datetime.utcnow().utctimetuple()): the instant in whole seconds.
SecondsOf(t) == t \div TicksPerSecond

\* The tick at which minute m of the clock begins.
MinuteTicks(m) == m * SecondsPerMinute * TicksPerSecond

\* jwt.decode: signature check, then the exp claim (whole seconds) against
\* the clock in whole seconds (ExpiredSignatureError is a JWTError); the
\* claims as a TokenPayload, exp as datetime.fromtimestamp gives it.
decode_token(token, t) ==
    IF token.sig # "valid" \/ token.exp < SecondsOf(t)
    THEN NoPayload
    ELSE [sub |-> token.sub, tenant_id |-> token.tenant_id, exp |-> token.exp,
          type |-> token.type, roles |-> token.roles]

\* The same with the kind check left out.
verify_token_NoKindCheck(token, token_type, t) ==
    LET payload == decode_token(token, t) IN
    IF payload = NoPayload THEN NoPayload
    ELSE IF payload.exp * TicksPerSecond < t THEN NoPayload
    ELSE payload

\* The same without the comparison of exp with datetime.now(): the expiry
\* check of jwt.decode alone.
verify_token_NoExpiryRecheck(token, token_type, t) ==
    LET payload == decode_token(token, t) IN
    IF payload = NoPayload THEN NoPayload
    ELSE IF payload.type # token_type THEN NoPayload
    ELSE payload

verify_token(token, token_type, t) ==
    LET payload == decode_token(token, t) IN
    IF payload = NoPayload THEN NoPayload
    ELSE IF payload.type # token_type THEN NoPayload
    ELSE IF payload.exp * TicksPerSecond < t THEN NoPayload
    ELSE payload

(***************************************************************************)
(* Dependencies (app/core/dependencies.py)                                 *)
(***************************************************************************)
HTTP_401_UNAUTHORIZED == 401
HTTP_403_FORBIDDEN == 403
HTTP_404_NOT_FOUND == 404

Raise(code, detail) == [raised |-> TRUE, status_code |-> code, detail |-> detail]
Return(value) == [raised |-> FALSE, value |-> value]

get_current_user_token(creds, t) ==
    IF ~creds.present
    THEN Raise(HTTP_401_UNAUTHORIZED, "Not authenticated")
    ELSE LET token_payload == verify_token(creds, "access", t) IN
         IF token_payload = NoPayload
         THEN Raise(HTTP_401_UNAUTHORIZED, "Invalid or expired token")
         ELSE Return(token_payload)

\* role_checker without the administrator bypass.
role_checker_NoAdminBypass(required_roles, creds, t) ==
    LET dep == get_current_user_token(creds, t) IN
    IF dep.raised THEN dep
    ELSE IF required_roles \cap dep.value.roles = {}
         THEN Raise(HTTP_403_FORBIDDEN, "Required roles")
         ELSE Return(dep.value)

\* role_checker allowing when nothing is required.
role_checker_EmptyAllows(required_roles, creds, t) ==
    LET dep == get_current_user_token(creds, t) IN
    IF dep.raised THEN dep
    ELSE IF "admin" \in dep.value.roles THEN Return(dep.value)
    ELSE IF required_roles # {} /\ required_roles \cap dep.value.roles = {}
         THEN Raise(HTTP_403_FORBIDDEN, "Required roles")
         ELSE Return(dep.value)

\* require_roles(*required_roles) -> role_checker(token), the token coming
\* from Depends(get_current_user_token).
role_checker(required_roles, creds, t) ==
    LET dep == get_current_user_token(creds, t) IN
    IF dep.raised THEN dep
    ELSE LET user_roles == dep.value.roles
             required == required_roles
         IN  IF "admin" \in user_roles THEN Return(dep.value)
             ELSE IF required \cap user_roles = {}
                  THEN Raise(HTTP_403_FORBIDDEN, "Required roles")
                  ELSE Return(dep.value)

\* Permission codes a route can pass to require_permissions.
PermissionCodes == {"users.read", "users.write"}

\* permission_checker resolving the token's roles: any role passes.
permission_checker_AnyRole(required_permissions, creds, t) ==
    LET dep == get_current_user_token(creds, t) IN
    IF dep.raised THEN dep
    ELSE IF dep.value.roles # {} THEN Return(dep.value)
         ELSE Raise(HTTP_403_FORBIDDEN, "Required permissions")

\* require_permissions(*required_permissions) -> permission_checker(token).
permission_checker(required_permissions, creds, t) ==
    LET dep == get_current_user_token(creds, t) IN
    IF dep.raised THEN dep
    ELSE IF "admin" \in dep.value.roles THEN Return(dep.value)
         ELSE Raise(HTTP_403_FORBIDDEN, "Required permissions")

\* The routes of app/api/v1/tenants.py that depend on
\* require_roles("superadmin").
PlatformRoutes ==
    {"list_tenants", "get_tenant", "create_tenant", "update_tenant",
     "delete_tenant"}

\* The dependency of a platform route.
platform_dependency(route, creds, t) == role_checker({"superadmin"}, creds, t)

NoResult == [op |-> "none"]


(***************************************************************************)
(* Identities (app/models/user.py) and the account guard                   *)
(* (UserService.authenticate, app/services/user_service.py)                *)
(***************************************************************************)
TENANT_SCHEMA_PREFIX == "tenant_"

Slugs == {"acme", "globex"}

\* f"{settings.TENANT_SCHEMA_PREFIX}{slug}"
SchemaOf(slug) == CASE slug = "acme" -> "tenant_acme"
                    [] slug = "globex" -> "tenant_globex"

SchemaNames == {SchemaOf(slug) : slug \in Slugs}

\* A NULL timestamp column.
NullTime == -1

MinutesPerHour == 60

Passwords == {"pw-right", "pw-wrong"}

\* passlib bcrypt: the hash determines the password it was made from.
get_password_hash(password) == <<"bcrypt", password>>
verify_password(plain_password, hashed_password) ==
    hashed_password = get_password_hash(plain_password)

NoUser == [id |-> None]

\* A users row as TenantService.create_schema / the User model define it,
\* with the role codes its user_roles rows link it to; last_login and the
\* profile columns are written but never read here and are left out, but
\* for first_name, which stands for them with the value "given".
NewUser(id, username, email, password) ==
    [id |-> id, username |-> username, email |-> email, first_name |-> "given",
     password_hash |-> get_password_hash(password),
     is_active |-> TRUE, is_deleted |-> FALSE,
     is_verified |-> FALSE, is_superuser |-> FALSE, roles |-> {},
     failed_login_attempts |-> 0, locked_until |-> NullTime]

\* result.scalar_one_or_none() of the select; username and email are UNIQUE.
ScalarOneOrNone(rows) == IF rows = {} THEN NoUser ELSE CHOOSE r \in rows : TRUE

get_by_username(table, username) ==
    ScalarOneOrNone({r \in table : r.username = username /\ ~r.is_deleted})

get_by_email(table, email) ==
    ScalarOneOrNone({r \in table : r.email = email /\ ~r.is_deleted})

\* datetime.replace(minute=m): ValueError unless 0 <= m <= 59.
ReplaceMinuteOk(m) == m \in 0..(MinutesPerHour - 1)
ReplaceMinute(t, m) == t - (t % MinutesPerHour) + m

\* The lock test with the comparison dropped: never locked.
IsLocked_Never(user, t) == FALSE

\* user.locked_until and user.locked_until > datetime.now(timezone.utc)
IsLocked(user, t) == user.locked_until # NullTime /\ user.locked_until > t

LOCK_THRESHOLD == 5
LOCK_MINUTES == 30

\* The columns of users the User model declares as Mapped[Optional[datetime]]
\* with a bare mapped_column: DateTime without timezone.
NaiveDateTimeColumns == {"last_login", "locked_until"}

\* db.commit() flushing an UPDATE that sets `columns` to values derived from
\* datetime.now(timezone.utc), which are timezone-aware.  The engine is
\* postgresql+asyncpg: a parameter of a DateTime column without timezone is
\* bound as TIMESTAMP WITHOUT TIME ZONE, and the driver refuses an aware
\* datetime for it; the flush raises (DBAPIError wrapping DataError) and
\* nothing is committed.
FlushAware(columns) ==
    IF columns \cap NaiveDateTimeColumns # {} THEN "DataError" ELSE "ok"

\* The failed-password branch: the row as mutated in the session, and
\* whether db.commit() is reached and succeeds (ValueError from replace()
\* comes before it; a non-NULL locked_until makes its flush raise).
FailedPassword(user, t) ==
    LET n == user.failed_login_attempts + 1 IN
    IF n >= LOCK_THRESHOLD
    THEN IF ~ReplaceMinuteOk((t % MinutesPerHour) + LOCK_MINUTES)
         THEN [committed |-> FALSE, outcome |-> "ValueError", row |-> user]
         ELSE IF FlushAware({"locked_until", "updated_at"}) # "ok"
         THEN [committed |-> FALSE,
               outcome |-> FlushAware({"locked_until", "updated_at"}),
               row |-> user]
         ELSE [committed |-> TRUE, outcome |-> "None",
               row |-> [user EXCEPT !.failed_login_attempts = n,
                          !.locked_until =
                             ReplaceMinute(t, (t % MinutesPerHour) + LOCK_MINUTES)]]
    ELSE [committed |-> TRUE, outcome |-> "None",
          row |-> [user EXCEPT !.failed_login_attempts = n]]

\* The success branch: reset, last_login = datetime.now(timezone.utc),
\* commit, return user.
SuccessfulLogin(user, t) ==
    IF FlushAware({"last_login", "updated_at"}) # "ok"
    THEN [committed |-> FALSE,
          outcome |-> FlushAware({"last_login", "updated_at"}),
          row |-> user]
    ELSE [committed |-> TRUE, outcome |-> "user",
          row |-> [user EXCEPT !.failed_login_attempts = 0,
                               !.locked_until = NullTime]]

\* UserService.authenticate(username, password) at instant t against the
\* users table of the bound schema.
authenticate(table, username, password, t) ==
    LET byName == get_by_username(table, username)
        user == IF byName = NoUser THEN get_by_email(table, username) ELSE byName
        miss == [committed |-> FALSE, outcome |-> "None", row |-> user]
        done ==
            IF user = NoUser THEN miss
            ELSE IF ~user.is_active THEN miss
            ELSE IF IsLocked(user, t) THEN miss
            ELSE IF ~verify_password(password, user.password_hash)
                 THEN FailedPassword(user, t)
                 ELSE SuccessfulLogin(user, t)
    IN  [found |-> user,
         password_checked |->
             (user # NoUser /\ user.is_active /\ ~IsLocked(user, t)),
         committed |-> done.committed,
         outcome |-> done.outcome,
         row |-> done.row]

\* db.commit(): the mutated row replaces the stored one.
CommitRow(table, old, new) == (table \ {old}) \cup {new}

NoAuth == [op |-> "none"]

(***************************************************************************)
(* Tenant context (app/core/tenancy.py)                                    *)
(***************************************************************************)
Requests == 1..NumRequests

\* A URL path as its sequence of "/" separators and segments; the empty
\* path is request.url.path of a request whose target is "*".
EmptyPath == <<>>
RootPath == <<"/">>
API_V1_PREFIX == <<"/", "api", "/", "v1">>

PUBLIC_PATHS ==
    { RootPath,
      <<"/", "health">>,
      <<"/", "docs">>,
      <<"/", "redoc">>,
      <<"/", "openapi.json">>,
      API_V1_PREFIX \o <<"/", "auth", "/", "login">>,
      API_V1_PREFIX \o <<"/", "auth", "/", "register">>,
      API_V1_PREFIX \o <<"/", "auth", "/", "refresh">>,
      API_V1_PREFIX \o <<"/", "tenants", "/", "register">> }

\* str.startswith
StartsWith(path, prefix) ==
    /\ Len(prefix) <= Len(path)
    /\ SubSeq(path, 1, Len(prefix)) = prefix

_is_public_path(path) ==
    \E public_path \in PUBLIC_PATHS :
        StartsWith(path, public_path) \/ path = public_path

ReservedSubdomains == {"www", "api", "app"}

\* Extraction with the X-Tenant-ID header consulted before the token.
_extract_tenant_HeaderFirst(request, t) ==
    LET payload == IF request.authorization.present
                   THEN decode_token(request.authorization, t)
                   ELSE NoPayload
    IN  IF request.x_tenant_id # None /\ request.x_tenant_id # ""
        THEN request.x_tenant_id
        ELSE IF payload # NoPayload /\ payload.tenant_id # ""
        THEN payload.tenant_id
        ELSE IF Len(request.host) > 1
                /\ request.host[1] # ""
                /\ request.host[1] \notin ReservedSubdomains
        THEN request.host[1]
        ELSE None

\* TenantMiddleware._extract_tenant: token claim, then X-Tenant-ID, then
\* the first label of Host.  A host is its sequence of dot-separated labels.
_extract_tenant(request, t) ==
    LET payload == IF request.authorization.present
                   THEN decode_token(request.authorization, t)
                   ELSE NoPayload
    IN  IF payload # NoPayload /\ payload.tenant_id # ""
        THEN payload.tenant_id
        ELSE IF request.x_tenant_id # None /\ request.x_tenant_id # ""
        THEN request.x_tenant_id
        ELSE IF Len(request.host) > 1
                /\ request.host[1] # ""
                /\ request.host[1] \notin ReservedSubdomains
        THEN request.host[1]
        ELSE None

\* The claims of a token without one of them.
WithoutClaim(token, claim) == [f \in DOMAIN token \ {claim} |-> token[f]]

\* The exception decode_token lets out, None when it returns: JWTError
\* (signature, expiry) is caught; datetime.fromtimestamp(None) for a missing
\* exp raises TypeError while the arguments of TokenPayload are built;
\* TokenPayload(sub=None) or (tenant_id=None) raises pydantic's
\* ValidationError.  Neither is a JWTError.
decode_token_error(token, t) ==
    IF token.sig # "valid" THEN None
    ELSE IF "exp" \in DOMAIN token /\ token.exp < SecondsOf(t) THEN None
    ELSE IF "exp" \notin DOMAIN token THEN "TypeError"
    ELSE IF "sub" \notin DOMAIN token \/ "tenant_id" \notin DOMAIN token
         THEN "ValidationError"
         ELSE None

\* A call of _extract_tenant: the value it returns or the exception that
\* leaves it.
_extract_tenant_call(request, t) ==
    IF /\ request.authorization.present
       /\ decode_token_error(request.authorization, t) # None
    THEN [raised |-> TRUE,
          error |-> decode_token_error(request.authorization, t)]
    ELSE [raised |-> FALSE, value |-> _extract_tenant(request, t)]

\* A ContextVar that is one process-wide variable: set() is seen everywhere.
ContextVarSet_Global(ctxvar, r, value) == [x \in DOMAIN ctxvar |-> value]

\* ContextVar.set(value) in the context of request r: every request is
\* handled in its own copy of the context.
ContextVarSet(ctxvar, r, value) == [ctxvar EXCEPT ![r] = value]

set_current_tenant(ctxvar, r, tenant_id) == ContextVarSet(ctxvar, r, tenant_id)

get_current_tenant(ctxvar, r) == ctxvar[r]

Unset == "unset"

IdleRequest == [pc |-> "idle"]

BearerAcme ==
    [present |-> TRUE, sig |-> "valid", sub |-> UserId(0), tenant_id |-> "acme",
     type |-> "access", exp |-> MaxExp, roles |-> {"user"}]

\* A bearer token whose signature does not validate under SECRET_KEY.
BearerForged == [BearerAcme EXCEPT !.sig = "forged"]

\* Authorization headers: none, another scheme, "Bearer " with nothing
\* after it, and bearer tokens forged, expired, complete, and correctly
\* signed without one of the claims.
BasicHeader == [present |-> FALSE, scheme |-> "Basic"]
BearerEmpty == [present |-> TRUE, sig |-> "malformed"]
BearerExpired == [BearerAcme EXCEPT !.exp = 0]

ExtractAuthorizations ==
    {NoCredentials, BasicHeader, BearerEmpty, BearerForged, BearerExpired,
     BearerAcme, WithoutClaim(BearerAcme, "sub"),
     WithoutClaim(BearerAcme, "tenant_id"), WithoutClaim(BearerAcme, "exp"),
     WithoutClaim(BearerExpired, "sub")}

ExtractRequests ==
    [path : {EmptyPath},
     authorization : ExtractAuthorizations,
     x_tenant_id : {None, "", "globex"},
     host : {<<"localhost">>, <<"globex", "wms", "example", "com">>,
             <<"www", "example", "com">>, <<"", "example", "com">>}]

\* The requests the context specification sends.
SampleRequests ==
    { [path |-> API_V1_PREFIX \o <<"/", "auth", "/", "login">>,
       authorization |-> NoCredentials, x_tenant_id |-> "acme",
       host |-> <<"localhost">>],
      [path |-> API_V1_PREFIX \o <<"/", "users">>,
       authorization |-> NoCredentials, x_tenant_id |-> None,
       host |-> <<"globex", "wms", "example", "com">>],
      [path |-> EmptyPath,
       authorization |-> BearerAcme, x_tenant_id |-> "globex",
       host |-> <<"localhost">>],
      [path |-> EmptyPath,
       authorization |-> NoCredentials, x_tenant_id |-> "globex",
       host |-> <<"localhost">>],
      [path |-> EmptyPath,
       authorization |-> NoCredentials, x_tenant_id |-> None,
       host |-> <<"www", "example", "com">>],
      [path |-> EmptyPath,
       authorization |-> BearerForged, x_tenant_id |-> None,
       host |-> <<"globex", "wms", "example", "com">>],
      [path |-> EmptyPath,
       authorization |-> BearerAcme, x_tenant_id |-> None,
       host |-> <<"globex", "wms", "example", "com">>],
      [path |-> EmptyPath,
       authorization |-> NoCredentials, x_tenant_id |-> "acme",
       host |-> <<"globex", "wms", "example", "com">>],
      [path |-> EmptyPath,
       authorization |-> NoCredentials, x_tenant_id |-> None,
       host |-> <<"localhost">>] }

(***************************************************************************)
(* Tenant directory (app/models/tenant.py, TenantService) and the          *)
(* provisioning workflow (AuthService.register_tenant)                     *)
(***************************************************************************)
Runs == 1..NumRuns

ACCESS_TOKEN_EXPIRE_MINUTES == 30
REFRESH_TOKEN_EXPIRE_DAYS == 7
MinutesPerDay == 1440

\* An access token that lives twice the configured lifetime.
create_access_token_LongLived(user_id, tenant_id, roles, t) ==
    [present |-> TRUE, sig |-> "valid", sub |-> user_id, tenant_id |-> tenant_id,
     type |-> "access",
     exp |-> (t + 2 * ACCESS_TOKEN_EXPIRE_MINUTES) * SecondsPerMinute,
     roles |-> roles]

create_access_token(user_id, tenant_id, roles, t) ==
    [present |-> TRUE, sig |-> "valid", sub |-> user_id, tenant_id |-> tenant_id,
     type |-> "access",
     exp |-> (t + ACCESS_TOKEN_EXPIRE_MINUTES) * SecondsPerMinute,
     roles |-> roles]

create_refresh_token(user_id, tenant_id, t) ==
    [present |-> TRUE, sig |-> "valid", sub |-> user_id, tenant_id |-> tenant_id,
     type |-> "refresh",
     exp |-> (t + REFRESH_TOKEN_EXPIRE_DAYS * MinutesPerDay) * SecondsPerMinute,
     roles |-> {}]

create_token_pair(user_id, tenant_id, roles, t) ==
    [access_token |-> create_access_token(user_id, tenant_id, roles, t),
     refresh_token |-> create_refresh_token(user_id, tenant_id, t),
     token_type |-> "bearer",
     expires_in |-> ACCESS_TOKEN_EXPIRE_MINUTES * 60]

NoTokens == [token_type |-> None]

\* Tenant(...) as TenantService.create builds it.
NewTenant(id, slug) ==
    [id |-> id, slug |-> slug, schema_name |-> SchemaOf(slug),
     schema_created |-> FALSE, is_active |-> TRUE]

\* TenantSettings(tenant_id=...) with the column defaults.
NewTenantSettings(tenant_id) == [tenant_id |-> tenant_id, ui_theme |-> "light"]

\* No UNIQUE constraint on tenants.slug / tenants.schema_name.
UniqueViolation_NoConstraint(rows, slug) == FALSE

\* UNIQUE(slug), UNIQUE(schema_name) on public.tenants: the INSERT of a row
\* for slug conflicts with a committed row.
UniqueViolation(rows, slug) ==
    \E row \in rows : row.slug = slug \/ row.schema_name = SchemaOf(slug)

get_by_slug(rows, slug) ==
    IF \E row \in rows : row.slug = slug
    THEN CHOOSE row \in rows : row.slug = slug
    ELSE [id |-> None]

NoSchema == [exists |-> FALSE, tables |-> {}, roles |-> {}]

TenantTables == {"users", "roles", "permissions", "role_permissions", "user_roles"}
SeedRoles == {"admin", "user"}

\* create_schema committing the schema and its tables without the role rows.
create_schema_NoSeed(schema) ==
    [exists |-> TRUE,
     tables |-> schema.tables \cup TenantTables,
     roles |-> schema.roles]

\* The statements of TenantService.create_schema, committed together:
\* CREATE SCHEMA / TABLE IF NOT EXISTS, INSERT roles ON CONFLICT DO NOTHING.
create_schema(schema) ==
    [exists |-> TRUE,
     tables |-> schema.tables \cup TenantTables,
     roles |-> schema.roles \cup SeedRoles]

\* UserService.create_admin_user: the row it commits, given the roles rows
\* of the bound schema (the admin role is attached only if it is found).
create_admin_user(id, data, schema) ==
    [NewUser(id, data.admin_username, data.admin_email, data.admin_password)
       EXCEPT !.is_superuser = TRUE,
              !.is_verified = TRUE,
              !.roles = IF "admin" \in schema.roles THEN {"admin"} ELSE {}]

\* The UserService queries that load User.roles with selectinload.
EagerRoleLoaders == {"get_by_id", "get_by_email", "get_by_username"}

\* User.role_codes on an instance produced by `loader`: the property walks
\* self.roles, a relationship with the default lazy loading.  An instance
\* that was not produced by a query with selectinload(User.roles) has the
\* relationship unloaded, and an AsyncSession cannot load it on attribute
\* access: the access raises MissingGreenlet.
role_codes(user, loader) ==
    IF loader \in EagerRoleLoaders
    THEN [raised |-> FALSE, value |-> user.roles]
    ELSE [raised |-> TRUE, error |-> "MissingGreenlet"]

\* UNIQUE(email), UNIQUE(username) on the users table of a schema.
UserUniqueViolation(table, row) ==
    \E r \in table : r.email = row.email \/ r.username = row.username

HTTP_201_CREATED == 201
HTTP_400_BAD_REQUEST == 400

Registrations ==
    [tenant_slug : Slugs, admin_username : {"root"},
     admin_email : {"root@example.test"}, admin_password : {"pw-right"}]

NoData == [tenant_slug |-> None]

IdleRun ==
    [pc |-> "idle", data |-> NoData, failed_at |-> None, error |-> None,
     status_code |-> 0, tokens |-> NoTokens]

EmptyDirectory ==
    /\ tenants = {}
    /\ tenant_settings = {}
    /\ schemas = [s \in SchemaNames |-> NoSchema]
    /\ runs = [p \in Runs |-> IdleRun]

RunningPcs ==
    {"create_flush", "create_commit", "create_schema", "create_admin",
     "issue_tokens"}

\* The except clause of the register_tenant route: 400, and the session is
\* closed, which discards whatever it had not committed.
FailedRun(run, error) ==
    [run EXCEPT !.pc = "failed", !.failed_at = run.pc, !.error = error,
                !.status_code = HTTP_400_BAD_REQUEST]

\* Another session holds an uncommitted INSERT of the same slug: the
\* storage engine makes this INSERT wait for that transaction to end.
InsertBlocked(p) ==
    \E q \in Runs \ {p} :
        /\ runs[q].pc = "create_commit"
        /\ runs[q].data.tenant_slug = runs[p].data.tenant_slug

(***************************************************************************)
(* Login and token refresh (AuthService.login / refresh_token and their    *)
(* routes in app/api/v1/auth.py)                                           *)
(***************************************************************************)
HTTP_200_OK == 200
HTTP_500_INTERNAL_SERVER_ERROR == 500

NoTenant == [id |-> None]

\* The lookup by id with the is_deleted condition left out.
get_by_id_IncludingDeleted(table, user_id) ==
    ScalarOneOrNone({r \in table : r.id = user_id})

get_by_id(table, user_id) ==
    ScalarOneOrNone({r \in table : r.id = user_id /\ ~r.is_deleted})

\* UserService.list: the rows of the listing before pagination.  The
\* optional is_active filter is the set of values it lets through (both
\* when it is None); role_code is a role code or None.
list(table, is_active, role_code) ==
    {r \in table : /\ ~r.is_deleted
                   /\ r.is_active \in is_active
                   /\ (role_code # None => role_code \in r.roles)}

\* Resolution of the unqualified table name `users` after
\* SET search_path TO <schema_name>, public with every schema having
\* any table of that name missing.
ResolveUsers_AnyPartition(schemata, schema_name) ==
    IF \E s \in DOMAIN schemata : schemata[s].exists
    THEN CHOOSE s \in DOMAIN schemata : schemata[s].exists
    ELSE None

\* Resolution of the unqualified table name `users` after
\* SET search_path TO <schema_name>, public: the tenant schema if it exists
\* and holds the table; the models place only tenants and tenant_settings
\* in public, so there is nothing to fall back to (UndefinedTable).
ResolveUsers(schemata, schema_name) ==
    IF schemata[schema_name].exists /\ "users" \in schemata[schema_name].tables
    THEN schema_name
    ELSE None

\* A service call's result: a returned value, None, or an exception.
Outcome(kind, error, tokens, schema, found, committed, row) ==
    [kind |-> kind, error |-> error, tokens |-> tokens, schema |-> schema,
     found |-> found, committed |-> committed, row |-> row]

ReturnsNone == Outcome("None", None, NoTokens, None, NoUser, FALSE, NoUser)

\* AuthService.login(username, password, tenant_slug) at instant t.
login(directory, schemata, tables, username, password, tenant_slug, t) ==
    IF tenant_slug = None THEN ReturnsNone
    ELSE
    LET tenant == get_by_slug(directory, tenant_slug) IN
    IF tenant = NoTenant THEN ReturnsNone
    ELSE IF ~tenant.is_active THEN ReturnsNone
    ELSE
    LET bound == ResolveUsers(schemata, tenant.schema_name) IN
    IF bound = None
    THEN Outcome("raise", "ProgrammingError", NoTokens, None, NoUser, FALSE, NoUser)
    ELSE
    LET r == authenticate(tables[bound], username, password, t) IN
    IF r.outcome = "None"
    THEN Outcome("None", None, NoTokens, bound, r.found, r.committed, r.row)
    ELSE IF r.outcome # "user"
    THEN Outcome("raise", r.outcome, NoTokens, bound, r.found, r.committed, r.row)
    ELSE
    LET codes == role_codes(r.row, "get_by_username") IN
    IF codes.raised
    THEN Outcome("raise", codes.error, NoTokens, bound, r.found, r.committed, r.row)
    ELSE Outcome("value", None,
                 create_token_pair(r.row.id, tenant_slug, codes.value, t),
                 bound, r.found, r.committed, r.row)

\* refresh_token without the test of the identity's is_active.
refresh_token_NoActiveCheck(directory, schemata, tables, token, t) ==
    LET payload == verify_token(token, "refresh", MinuteTicks(t)) IN
    IF payload = NoPayload THEN ReturnsNone
    ELSE
    LET tenant == get_by_slug(directory, payload.tenant_id) IN
    IF tenant = NoTenant THEN ReturnsNone
    ELSE IF ~tenant.is_active THEN ReturnsNone
    ELSE
    LET bound == ResolveUsers(schemata, tenant.schema_name) IN
    IF bound = None
    THEN Outcome("raise", "ProgrammingError", NoTokens, None, NoUser, FALSE, NoUser)
    ELSE
    LET user == get_by_id(tables[bound], payload.sub) IN
    IF user = NoUser THEN ReturnsNone
    ELSE Outcome("value", None,
                 create_token_pair(user.id, payload.tenant_id, user.roles, t),
                 bound, user, FALSE, user)

\* AuthService.refresh_token(refresh_token) at instant t.
refresh_token(directory, schemata, tables, token, t) ==
    LET payload == verify_token(token, "refresh", MinuteTicks(t)) IN
    IF payload = NoPayload THEN ReturnsNone
    ELSE
    LET tenant == get_by_slug(directory, payload.tenant_id) IN
    IF tenant = NoTenant THEN ReturnsNone
    ELSE IF ~tenant.is_active THEN ReturnsNone
    ELSE
    LET bound == ResolveUsers(schemata, tenant.schema_name) IN
    IF bound = None
    THEN Outcome("raise", "ProgrammingError", NoTokens, None, NoUser, FALSE, NoUser)
    ELSE
    LET user == get_by_id(tables[bound], payload.sub) IN
    IF user = NoUser THEN ReturnsNone
    ELSE IF ~user.is_active
    THEN Outcome("None", None, NoTokens, bound, user, FALSE, user)
    ELSE
    LET codes == role_codes(user, "get_by_id") IN
    IF codes.raised
    THEN Outcome("raise", codes.error, NoTokens, bound, user, FALSE, user)
    ELSE Outcome("value", None,
                 create_token_pair(user.id, payload.tenant_id, codes.value, t),
                 bound, user, FALSE, user)

\* The route on top of the service call: the value with 200, the one 401
\* for None, and an exception nothing catches, which the server answers
\* with 500.
RouteResponse(out, detail) ==
    CASE out.kind = "value" -> [status_code |-> HTTP_200_OK, detail |-> None]
      [] out.kind = "None"  -> [status_code |-> HTTP_401_UNAUTHORIZED,
                                detail |-> detail]
      [] OTHER -> [status_code |-> HTTP_500_INTERNAL_SERVER_ERROR,
                   detail |-> "Internal Server Error"]

(***************************************************************************)
(* Tenant administration (app/api/v1/tenants.py on TenantService)          *)
(***************************************************************************)
\* The keys a PATCH /tenants/{id} body is drawn with, and the fields
\* TenantUpdate declares among them; pydantic ignores undeclared keys.
TenantBodyKeys == {"is_active", "slug", "schema_name"}
TenantUpdateFields == {"is_active"}

\* A key the body lacks carries one fixed placeholder value.
TenantBodies ==
    {body \in [keys : SUBSET TenantBodyKeys, is_active : BOOLEAN,
               slug : Slugs, schema_name : SchemaNames] :
       /\ "is_active" \notin body.keys => body.is_active
       /\ "slug" \notin body.keys => body.slug = "acme"
       /\ "schema_name" \notin body.keys => body.schema_name = SchemaOf("acme")}

\* A TenantUpdate that keeps every key of the body.
model_dump_AllowExtra(body) == body.keys

\* data.model_dump(exclude_unset=True): the declared fields the body set.
model_dump(body) == body.keys \cap TenantUpdateFields

\* for field, value in update_data.items(): setattr(tenant, field, value)
SetAttrs(tenant, fields, body) ==
    LET a == IF "is_active" \in fields
             THEN [tenant EXCEPT !.is_active = body.is_active] ELSE tenant
        b == IF "slug" \in fields THEN [a EXCEPT !.slug = body.slug] ELSE a
    IN  IF "schema_name" \in fields
        THEN [b EXCEPT !.schema_name = body.schema_name] ELSE b

TenantExists(rows, tenant_id) == \E row \in rows : row.id = tenant_id

\* TenantService.update: the rows after commit.
TenantService_update(rows, tenant_id, body) ==
    {IF row.id = tenant_id THEN SetAttrs(row, model_dump(body), body) ELSE row :
       row \in rows}

\* A delete that removes the row.
TenantService_delete_Hard(rows, tenant_id) ==
    {row \in rows : row.id # tenant_id}

\* TenantService.delete: tenant.is_active = False.
TenantService_delete(rows, tenant_id) ==
    {IF row.id = tenant_id THEN [row EXCEPT !.is_active = FALSE] ELSE row :
       row \in rows}

UiThemes == {"light", "dark"}

\* TenantService.update_settings with ui_theme set.
TenantService_update_settings(settings, tenant_id, ui_theme) ==
    {IF ts.tenant_id = tenant_id THEN [ts EXCEPT !.ui_theme = ui_theme] ELSE ts :
       ts \in settings}

(***************************************************************************)
(* Identity administration (app/api/v1/users.py on UserService)            *)
(***************************************************************************)
\* uuid4(): an id no row of the table has.
FreshUserId(table) ==
    UserId(CHOOSE n \in 1..(MaxUsers + 1) :
             /\ \A r \in table : r.id # UserId(n)
             /\ \A m \in 1..(n - 1) : \E r \in table : r.id = UserId(m))

\* The create_user route for an administrator's request: the two lookups,
\* then UserService.create (flush, role rows, commit, reload).
create_user(table, data) ==
    IF get_by_email(table, data.email) # NoUser
    THEN [status_code |-> HTTP_400_BAD_REQUEST, error |-> None,
          detail |-> "User with this email already exists",
          table |-> table, user |-> NoUser]
    ELSE IF get_by_username(table, data.username) # NoUser
    THEN [status_code |-> HTTP_400_BAD_REQUEST, error |-> None,
          detail |-> "User with this username already exists",
          table |-> table, user |-> NoUser]
    ELSE
    LET user == [NewUser(FreshUserId(table), data.username, data.email,
                         data.password)
                   EXCEPT !.roles = data.role_ids]
    IN  IF UserUniqueViolation(table, user)
        THEN [status_code |-> HTTP_500_INTERNAL_SERVER_ERROR,
              error |-> "IntegrityError", detail |-> "Internal Server Error",
              table |-> table, user |-> NoUser]
        ELSE [status_code |-> HTTP_201_CREATED, error |-> None, detail |-> None,
              table |-> table \cup {user}, user |-> user]

\* The get_user route with the lookup made before the access check.
get_user_LookupFirst(creds, t, user_id, table) ==
    LET dep == get_current_user_token(creds, t) IN
    IF dep.raised THEN dep
    ELSE IF get_by_id(table, user_id) = NoUser
    THEN Raise(HTTP_404_NOT_FOUND, "User not found")
    ELSE IF user_id # dep.value.sub /\ "admin" \notin dep.value.roles
    THEN Raise(HTTP_403_FORBIDDEN, "Access denied")
    ELSE Return(get_by_id(table, user_id))

\* The get_user route: the token dependency, the check that the caller is
\* the target or an administrator, then the lookup.
get_user(creds, t, user_id, table) ==
    LET dep == get_current_user_token(creds, t) IN
    IF dep.raised THEN dep
    ELSE IF user_id # dep.value.sub /\ "admin" \notin dep.value.roles
    THEN Raise(HTTP_403_FORBIDDEN, "Access denied")
    ELSE IF get_by_id(table, user_id) = NoUser
    THEN Raise(HTTP_404_NOT_FOUND, "User not found")
    ELSE Return(get_by_id(table, user_id))

(***************************************************************************)
(* User-management routes with their callers (app/api/v1/users.py): the    *)
(* caller is the TokenPayload the CurrentUser dependency verified.         *)
(***************************************************************************)
\* The keys a PATCH /users/{id} body is drawn with (all fields of
\* UserUpdate), each with the one value it carries when set.
UserBodyKeys == {"first_name", "is_active", "role_ids", "email"}

UserBodies ==
    [fields : {{"first_name"}, {"is_active"}, {"role_ids"}, {"email"},
               {"first_name", "is_active"}},
     first_name : {"Renamed"}, is_active : {FALSE}, role_ids : {{"admin"}},
     email : {"new@example.test"}]

\* UserService.update: setattr for every field set but role_ids, the
\* user_roles rows replaced when role_ids is given, commit.  found is
\* whether get_by_id found the row, error what commit raised.
UserService_update(table, user_id, data) ==
    LET user == get_by_id(table, user_id)
        a == IF "first_name" \in data.fields
             THEN [user EXCEPT !.first_name = data.first_name] ELSE user
        b == IF "is_active" \in data.fields
             THEN [a EXCEPT !.is_active = data.is_active] ELSE a
        c == IF "email" \in data.fields THEN [b EXCEPT !.email = data.email] ELSE b
        d == IF "role_ids" \in data.fields THEN [c EXCEPT !.roles = data.role_ids] ELSE c
    IN  IF user = NoUser THEN [found |-> FALSE, error |-> None, table |-> table]
        ELSE IF UserUniqueViolation(table \ {user}, d)
        THEN [found |-> TRUE, error |-> "IntegrityError", table |-> table]
        ELSE [found |-> TRUE, error |-> None, table |-> CommitRow(table, user, d)]

\* The answer of a users route: the status and the table after it.
Answer(status_code, table) == [status_code |-> status_code, table |-> table]

\* What a route answers on top of UserService.update.
UpdateAnswer(done) ==
    IF done.error # None THEN Answer(HTTP_500_INTERNAL_SERVER_ERROR, done.table)
    ELSE IF ~done.found THEN Answer(HTTP_404_NOT_FOUND, done.table)
    ELSE Answer(HTTP_200_OK, done.table)

allowed_fields == {"first_name", "last_name", "display_name", "phone", "preferences"}

\* update_user without the test of the fields a non-administrator sets.
update_user_NoFieldCheck(caller, user_id, data, table) ==
    LET is_self == user_id = caller.sub
        is_admin == "admin" \in caller.roles
    IN  IF ~is_self /\ ~is_admin THEN Answer(HTTP_403_FORBIDDEN, table)
        ELSE UpdateAnswer(UserService_update(table, user_id, data))

\* PATCH /users/{user_id}
update_user(caller, user_id, data, table) ==
    LET is_self == user_id = caller.sub
        is_admin == "admin" \in caller.roles
    IN  IF ~is_self /\ ~is_admin THEN Answer(HTTP_403_FORBIDDEN, table)
        ELSE IF is_self /\ ~is_admin /\ ~(data.fields \subseteq allowed_fields)
        THEN Answer(HTTP_403_FORBIDDEN, table)
        ELSE UpdateAnswer(UserService_update(table, user_id, data))

\* DELETE /users/{user_id}
delete_user(caller, user_id, table) ==
    IF "admin" \notin caller.roles THEN Answer(HTTP_403_FORBIDDEN, table)
    ELSE IF user_id = caller.sub THEN Answer(HTTP_400_BAD_REQUEST, table)
    ELSE LET user == get_by_id(table, user_id) IN
         IF user = NoUser THEN Answer(HTTP_404_NOT_FOUND, table)
         ELSE Answer(HTTP_200_OK,
                     CommitRow(table, user, [user EXCEPT !.is_deleted = TRUE]))

\* POST /users/{user_id}/deactivate
deactivate_user(caller, user_id, table) ==
    IF "admin" \notin caller.roles THEN Answer(HTTP_403_FORBIDDEN, table)
    ELSE IF user_id = caller.sub THEN Answer(HTTP_400_BAD_REQUEST, table)
    ELSE UpdateAnswer(UserService_update(table, user_id,
             [fields |-> {"is_active"}, is_active |-> FALSE]))

\* POST /users/{user_id}/activate
activate_user(caller, user_id, table) ==
    IF "admin" \notin caller.roles THEN Answer(HTTP_403_FORBIDDEN, table)
    ELSE UpdateAnswer(UserService_update(table, user_id,
             [fields |-> {"is_active"}, is_active |-> TRUE]))

\* POST /users/{user_id}/reset-password on UserService.reset_password.
reset_user_password(caller, user_id, new_password, table) ==
    IF "admin" \notin caller.roles THEN Answer(HTTP_403_FORBIDDEN, table)
    ELSE LET user == get_by_id(table, user_id) IN
         IF user = NoUser THEN Answer(HTTP_404_NOT_FOUND, table)
         ELSE Answer(HTTP_200_OK,
                     CommitRow(table, user,
                        [user EXCEPT
                           !.password_hash = get_password_hash(new_password),
                           !.failed_login_attempts = 0,
                           !.locked_until = NullTime]))

\* POST /users: the administrator test, then the route body.
create_user_by(caller, data, table) ==
    IF "admin" \notin caller.roles THEN Answer(HTTP_403_FORBIDDEN, table)
    ELSE LET out == create_user(table, data) IN Answer(out.status_code, out.table)

(***************************************************************************)
(* Sessions and the connection pool (app/core/database.py): what the       *)
(* handlers of app/api/v1/users.py and AuthService.register_tenant send    *)
(* through their AsyncSession.                                             *)
(***************************************************************************)
ConnIds == 1..NumConnections
NoConnection == 0

\* The search_path of a new connection; a search_path is the sequence of
\* schema names it lists.
DefaultSearchPath == <<"public">>

\* f"SET search_path TO {schema_name}, public"
TenantSearchPath(slug) == <<SchemaOf(slug), "public">>

\* The schema in which an unqualified tenant table (users, roles, ...) is
\* looked up: the first schema of the path that holds tenant tables.
Partition(search_path) ==
    IF \E i \in 1..Len(search_path) : search_path[i] \in SchemaNames
    THEN search_path[CHOOSE i \in 1..Len(search_path) :
                       /\ search_path[i] \in SchemaNames
                       /\ \A j \in 1..(i - 1) : search_path[j] \notin SchemaNames]
    ELSE "public"

SetStmt(search_path) == [kind |-> "set", search_path |-> search_path]
TenantStmts(stmts) == [kind |-> "execute", scoped |-> TRUE, stmts |-> stmts]
PublicStmts(stmts) == [kind |-> "execute", scoped |-> FALSE, stmts |-> stmts]
CommitStmt == [kind |-> "commit"]
CloseStmt == [kind |-> "close"]

\* What each handler sends through its session, in order; consecutive
\* statements of one transaction are one entry.  Every handler ends with
\* get_db's session.close().
HandlerNames == {"get_user", "update_user", "create_user", "register_tenant"}

Statements(handler, slug) ==
    CASE handler = "get_user" ->
           << SetStmt(TenantSearchPath(slug)),
              TenantStmts({"get_by_id"}),
              CloseStmt >>
      [] handler = "update_user" ->
           << SetStmt(TenantSearchPath(slug)),
              TenantStmts({"get_by_id", "delete user_roles", "flush"}),
              CommitStmt,
              TenantStmts({"get_by_id (reload)"}),
              CloseStmt >>
      [] handler = "create_user" ->
           << SetStmt(TenantSearchPath(slug)),
              TenantStmts({"get_by_email", "get_by_username", "flush"}),
              CommitStmt,
              TenantStmts({"refresh", "get_by_id (reload)"}),
              CloseStmt >>
      [] handler = "register_tenant" ->
           << PublicStmts({"get_by_slug", "flush"}),
              CommitStmt,
              SetStmt(<<SchemaOf(slug)>>),
              TenantStmts({"create tables", "insert roles"}),
              SetStmt(<<"public">>),
              PublicStmts({"flush"}),
              CommitStmt,
              SetStmt(TenantSearchPath(slug)),
              TenantStmts({"select role", "flush"}),
              CommitStmt,
              TenantStmts({"refresh"}),
              CloseStmt >>

IdleSession == [pc |-> 0]

\* QueuePool checkout for a session that begins a transaction: the
\* connection idle for longest, else a new connection while the pool may
\* open one, else the session waits.  A session inside a transaction keeps
\* the connection it has.
Checkout(session, idle, conns) ==
    IF session.conn # NoConnection
    THEN [ok |-> TRUE, conn |-> session.conn, pool |-> idle,
          connections |-> conns, txn_path |-> session.txn_path]
    ELSE IF idle # <<>>
    THEN [ok |-> TRUE, conn |-> Head(idle), pool |-> Tail(idle),
          connections |-> conns, txn_path |-> conns[Head(idle)].search_path]
    ELSE IF \E c \in ConnIds : ~conns[c].open
    THEN LET c == CHOOSE c \in ConnIds :
                      /\ ~conns[c].open
                      /\ \A d \in ConnIds : ~conns[d].open => c <= d
         IN  [ok |-> TRUE, conn |-> c, pool |-> idle,
              connections |-> [conns EXCEPT ![c].open = TRUE],
              txn_path |-> DefaultSearchPath]
    ELSE [ok |-> FALSE]

\* The connection goes back to the pool, behind the ones already idle.
Release(idle, conn) == Append(idle, conn)

IdlePool ==
    /\ pool = <<>>
    /\ connections = [c \in ConnIds |->
                        [open |-> FALSE, search_path |-> DefaultSearchPath]]
    /\ sessions = [r \in Requests |-> IdleSession]

(***************************************************************************)
(* Token specification: a request presents a credential at some instant    *)
(* and the verification functions / dependencies are applied to it.        *)
(***************************************************************************)
TokenInit ==
    /\ IdlePool
    /\ now \in 0..(MaxExp + 1) * TicksPerSecond
    /\ credentials \in Tokens \cup {NoCredentials}
    /\ authResult = NoResult
    /\ users = [s \in SchemaNames |-> {}]
    /\ lastAuth = NoAuth
    /\ current_tenant_id = [r \in Requests |-> None]
    /\ inflight = [r \in Requests |-> IdleRequest]
    /\ EmptyDirectory

\* verify_token(token, token_type) applied to the presented token.
VerifyToken ==
    /\ credentials.present
    /\ \E token_type \in TokenTypes :
         authResult' = [op |-> "verify_token", token_type |-> token_type,
                        at |-> now,
                        payload |-> verify_token(credentials, token_type, now)]
    /\ UNCHANGED <<now, poolVars, credentials, guardVars, ctxVars, dirVars>>

\* A protected endpoint: Depends(get_current_user_token).
GetCurrentUserToken ==
    /\ authResult' = [op |-> "get_current_user_token", at |-> now,
                      out |-> get_current_user_token(credentials, now)]
    /\ UNCHANGED <<now, poolVars, credentials, guardVars, ctxVars, dirVars>>

\* A role-protected endpoint: Depends(require_roles(*required_roles)).
RequireRoles ==
    /\ \E required_roles \in SUBSET RoleCodes :
         authResult' = [op |-> "require_roles", at |-> now,
                        required_roles |-> required_roles,
                        out |-> role_checker(required_roles, credentials, now)]
    /\ UNCHANGED <<now, poolVars, credentials, guardVars, ctxVars, dirVars>>

\* GET /users/{user_id} for the caller's own id or another one, the target
\* stored in the partition or not.
GetUser ==
    /\ \E n \in {0, 1}, exists \in BOOLEAN :
         LET table == IF exists
                      THEN {NewUser(UserId(n), "kim", "kim@example.test",
                                    "pw-right")}
                      ELSE {}
         IN  authResult' = [op |-> "get_user", at |-> now,
                            user_id |-> UserId(n), exists |-> exists,
                            out |-> get_user(credentials, now, UserId(n), table)]
    /\ UNCHANGED <<now, poolVars, credentials, guardVars, ctxVars, dirVars>>

\* A route depending on require_permissions(...).
RequirePermissions ==
    /\ \E required_permissions \in SUBSET PermissionCodes :
         authResult' = [op |-> "require_permissions", at |-> now,
                        required_permissions |-> required_permissions,
                        out |-> permission_checker(required_permissions,
                                                   credentials, now)]
    /\ UNCHANGED <<now, poolVars, credentials, guardVars, ctxVars, dirVars>>

\* A platform tenant route called with the presented credentials: what its
\* require_roles("superadmin") dependency answers before the body runs.
PlatformTenantRoute ==
    /\ \E route \in PlatformRoutes :
         authResult' = [op |-> "platform", at |-> now, route |-> route,
                        out |-> platform_dependency(route, credentials, now)]
    /\ UNCHANGED <<now, poolVars, credentials, guardVars, ctxVars, dirVars>>

TokenNext ==
    \/ VerifyToken
    \/ GetCurrentUserToken
    \/ RequireRoles
    \/ GetUser
    \/ RequirePermissions
    \/ PlatformTenantRoute

SpecToken == TokenInit /\ [][TokenNext]_vars

(***************************************************************************)
(* Account-guard specification: one identity in tenant_acme, login         *)
(* attempts against it at arbitrary minutes, administrator actions on it.  *)
(***************************************************************************)
GuardSchema == SchemaOf("acme")

Usernames == {"alice", "alice@acme.test", "nobody"}

\* The guard columns the stored row starts with: a fresh identity, or one
\* whose counter and lockout expiry were stored before (the columns accept
\* any such value, whoever wrote it).
StoredGuards ==
    {[failed_login_attempts |-> 0, locked_until |-> NullTime],
     [failed_login_attempts |-> LOCK_THRESHOLD - 1, locked_until |-> NullTime],
     [failed_login_attempts |-> LOCK_THRESHOLD, locked_until |-> MinutesPerHour]}

GuardInit ==
    /\ IdlePool
    /\ now \in 0..(MinutesPerHour - 1)
    /\ credentials = NoCredentials
    /\ authResult = NoResult
    /\ \E g \in StoredGuards :
         users = [s \in SchemaNames |->
                    IF s = GuardSchema
                    THEN {[NewUser(UserId(0), "alice", "alice@acme.test", "pw-right")
                             EXCEPT !.failed_login_attempts = g.failed_login_attempts,
                                    !.locked_until = g.locked_until]}
                    ELSE {}]
    /\ lastAuth = NoAuth
    /\ current_tenant_id = [r \in Requests |-> None]
    /\ inflight = [r \in Requests |-> IdleRequest]
    /\ EmptyDirectory

\* Time passes.
Tick ==
    /\ \E d \in {1, LOCK_MINUTES} :
         /\ now + d <= MaxClock
         /\ now' = now + d
    /\ lastAuth' = NoAuth
    /\ UNCHANGED <<poolVars, tokenVars, users, ctxVars, dirVars>>

\* One call of UserService.authenticate, start to return (or exception).
Authenticate ==
    \E username \in Usernames, password \in Passwords :
      LET r == authenticate(users[GuardSchema], username, password, now) IN
      /\ r.row # NoUser => r.row.failed_login_attempts <= MaxFailed
      /\ users' = IF r.committed
                  THEN [users EXCEPT ![GuardSchema] = CommitRow(@, r.found, r.row)]
                  ELSE users
      /\ lastAuth' = [op |-> "authenticate", username |-> username,
                      password |-> password, at |-> now,
                      before |-> r.found,
                      password_checked |-> r.password_checked,
                      outcome |-> r.outcome,
                      after |-> IF r.committed THEN r.row ELSE r.found]
      /\ UNCHANGED <<now, poolVars, tokenVars, ctxVars, dirVars>>

\* UserService.update with is_active in the payload (activate/deactivate).
SetActive ==
    \E u \in users[GuardSchema], v \in BOOLEAN :
      /\ ~u.is_deleted
      /\ u.is_active # v
      /\ users' = [users EXCEPT ![GuardSchema] =
                     CommitRow(@, u, [u EXCEPT !.is_active = v])]
      /\ lastAuth' = NoAuth
      /\ UNCHANGED <<now, poolVars, tokenVars, ctxVars, dirVars>>

\* UserService.delete: soft delete.
SoftDelete ==
    \E u \in users[GuardSchema] :
      /\ ~u.is_deleted
      /\ users' = [users EXCEPT ![GuardSchema] =
                     CommitRow(@, u, [u EXCEPT !.is_deleted = TRUE])]
      /\ lastAuth' = NoAuth
      /\ UNCHANGED <<now, poolVars, tokenVars, ctxVars, dirVars>>

\* POST /users/{user_id}/reset-password by an administrator of the tenant.
ResetPassword ==
    \E new_password \in Passwords :
      LET out == reset_user_password([sub |-> UserId(1), roles |-> {"admin"}],
                                     UserId(0), new_password, users[GuardSchema])
      IN
      /\ users' = [users EXCEPT ![GuardSchema] = out.table]
      /\ lastAuth' = [op |-> "reset_password", at |-> now,
                      status_code |-> out.status_code]
      /\ UNCHANGED <<now, poolVars, tokenVars, ctxVars, dirVars>>

GuardNext == Tick \/ Authenticate \/ SetActive \/ SoftDelete \/ ResetPassword

SpecGuard == GuardInit /\ [][GuardNext]_vars

(***************************************************************************)
(* Tenant-context specification: concurrent requests through               *)
(* TenantMiddleware.dispatch, each in its own context.                     *)
(***************************************************************************)
ContextInit ==
    /\ IdlePool
    /\ now \in {0, 1}
    /\ credentials = NoCredentials
    /\ authResult = NoResult
    /\ users = [s \in SchemaNames |-> {}]
    /\ lastAuth = NoAuth
    /\ current_tenant_id = [r \in Requests |-> None]
    /\ inflight = [r \in Requests |-> IdleRequest]
    /\ EmptyDirectory

\* A request arrives: a new task whose context is a copy of the server's,
\* in which the variable was never set (default None).
Arrive(r) ==
    /\ inflight[r].pc = "idle"
    /\ \E request \in SampleRequests :
         inflight' = [inflight EXCEPT ![r] =
                        [pc |-> "dispatch", request |-> request, bare |-> FALSE,
                         state_tenant_id |-> Unset, observed |-> Unset]]
    /\ current_tenant_id' = [current_tenant_id EXCEPT ![r] = None]
    /\ UNCHANGED <<now, poolVars, tokenVars, guardVars, dirVars>>

\* dispatch up to call_next: public paths pass straight through; otherwise
\* the tenant is extracted and stored (or None stored).
DispatchEnter(r) ==
    /\ inflight[r].pc = "dispatch"
    /\ LET request == inflight[r].request
           tenant_id == _extract_tenant(request, MinuteTicks(now))
       IN  IF _is_public_path(request.path)
           THEN /\ inflight' = [inflight EXCEPT ![r].pc = "call_next",
                                                ![r].bare = TRUE]
                /\ UNCHANGED current_tenant_id
           ELSE /\ current_tenant_id' =
                      set_current_tenant(current_tenant_id, r, tenant_id)
                /\ inflight' = [inflight EXCEPT ![r].pc = "call_next",
                                                ![r].state_tenant_id = tenant_id]
    /\ UNCHANGED <<now, poolVars, tokenVars, guardVars, dirVars>>

\* The downstream handler runs, reads the current tenant (get_tenant_db,
\* require_tenant) and returns a response or raises.
Endpoint(r) ==
    /\ inflight[r].pc = "call_next"
    /\ \E outcome \in {"returned", "raised"} :
         inflight' = [inflight EXCEPT
                        ![r].pc = outcome,
                        ![r].observed = get_current_tenant(current_tenant_id, r)]
    /\ UNCHANGED <<now, poolVars, tokenVars, guardVars, current_tenant_id, dirVars>>

\* call_next returned: the context is cleared (not on a public path, which
\* returned call_next's response directly).
DispatchReturn(r) ==
    /\ inflight[r].pc = "returned"
    /\ current_tenant_id' =
           IF inflight[r].bare THEN current_tenant_id
           ELSE set_current_tenant(current_tenant_id, r, None)
    /\ inflight' = [inflight EXCEPT ![r].pc = "done"]
    /\ UNCHANGED <<now, poolVars, tokenVars, guardVars, dirVars>>

\* call_next raised: the exception leaves dispatch, nothing after it runs.
DispatchRaise(r) ==
    /\ inflight[r].pc = "raised"
    /\ inflight' = [inflight EXCEPT ![r].pc = "done"]
    /\ UNCHANGED <<now, poolVars, tokenVars, guardVars, current_tenant_id, dirVars>>

\* The request's task ends.
Complete(r) ==
    /\ inflight[r].pc = "done"
    /\ inflight' = [inflight EXCEPT ![r] = IdleRequest]
    /\ UNCHANGED <<now, poolVars, tokenVars, guardVars, current_tenant_id, dirVars>>

ContextNext ==
    \E r \in Requests :
        \/ Arrive(r)
        \/ DispatchEnter(r)
        \/ Endpoint(r)
        \/ DispatchReturn(r)
        \/ DispatchRaise(r)
        \/ Complete(r)

SpecContext == ContextInit /\ [][ContextNext]_vars

(***************************************************************************)
(* Provisioning specification: concurrent POST /auth/register requests,    *)
(* each a run of AuthService.register_tenant in its own session; a         *)
(* storage error can end a run at any of its steps.                        *)
(***************************************************************************)
ProvisionInit ==
    /\ IdlePool
    /\ now = 0
    /\ credentials = NoCredentials
    /\ authResult = NoResult
    /\ users = [s \in SchemaNames |-> {}]
    /\ lastAuth = NoAuth
    /\ current_tenant_id = [r \in Requests |-> None]
    /\ inflight = [r \in Requests |-> IdleRequest]
    /\ EmptyDirectory

\* The request arrives with its TenantRegistration body.
Register(p) ==
    /\ runs[p].pc = "idle"
    /\ \E data \in Registrations :
         runs' = [runs EXCEPT ![p] = [IdleRun EXCEPT !.pc = "create_flush",
                                                     !.data = data]]
    /\ UNCHANGED <<now, poolVars, tokenVars, guardVars, ctxVars,
                   tenants, tenant_settings, schemas>>

\* TenantService.create up to flush(): INSERT INTO public.tenants.
CreateFlush(p) ==
    /\ runs[p].pc = "create_flush"
    /\ ~InsertBlocked(p)
    /\ runs' = [runs EXCEPT ![p] =
                  IF UniqueViolation(tenants, runs[p].data.tenant_slug)
                  THEN FailedRun(runs[p], "IntegrityError")
                  ELSE [runs[p] EXCEPT !.pc = "create_commit"]]
    /\ UNCHANGED <<now, poolVars, tokenVars, guardVars, ctxVars,
                   tenants, tenant_settings, schemas>>

\* TenantService.create from the TenantSettings insert to commit().
CreateCommit(p) ==
    /\ runs[p].pc = "create_commit"
    /\ tenants' = tenants \cup {NewTenant(TenantId(p), runs[p].data.tenant_slug)}
    /\ tenant_settings' = tenant_settings \cup {NewTenantSettings(TenantId(p))}
    /\ runs' = [runs EXCEPT ![p].pc = "create_schema"]
    /\ UNCHANGED <<now, poolVars, tokenVars, guardVars, ctxVars, schemas>>

\* TenantService.create_schema, when no statement fails: schema, tables,
\* seed roles and schema_created = True are committed in one transaction.
CreateSchema(p) ==
    /\ runs[p].pc = "create_schema"
    /\ schemas' = [schemas EXCEPT ![SchemaOf(runs[p].data.tenant_slug)] =
                      create_schema(@)]
    /\ tenants' = {IF row.id = TenantId(p)
                   THEN [row EXCEPT !.schema_created = TRUE]
                   ELSE row : row \in tenants}
    /\ runs' = [runs EXCEPT ![p].pc = "create_admin"]
    /\ UNCHANGED <<now, poolVars, tokenVars, guardVars, ctxVars, tenant_settings>>

\* SET search_path and UserService.create_admin_user up to commit(), in
\* one transaction of the run's session.
CreateAdminUser(p) ==
    /\ runs[p].pc = "create_admin"
    /\ LET schema_name == SchemaOf(runs[p].data.tenant_slug)
           user == create_admin_user(UserId(p), runs[p].data, schemas[schema_name])
       IN  IF UserUniqueViolation(users[schema_name], user)
           THEN /\ runs' = [runs EXCEPT ![p] = FailedRun(@, "IntegrityError")]
                /\ UNCHANGED users
           ELSE /\ users' = [users EXCEPT ![schema_name] = @ \cup {user}]
                /\ runs' = [runs EXCEPT ![p].pc = "issue_tokens"]
    /\ UNCHANGED <<now, poolVars, tokenVars, lastAuth, ctxVars,
                   tenants, tenant_settings, schemas>>

\* register_tenant from create_token_pair on: roles=user.role_codes is read
\* from the instance create_admin_user returned, then the 201 response.
IssueTokens(p) ==
    /\ runs[p].pc = "issue_tokens"
    /\ LET schema_name == SchemaOf(runs[p].data.tenant_slug)
           user == CHOOSE u \in users[schema_name] : u.id = UserId(p)
           codes == role_codes(user, "create_admin_user")
       IN  runs' = [runs EXCEPT ![p] =
                      IF codes.raised
                      THEN FailedRun(@, codes.error)
                      ELSE [@ EXCEPT
                              !.pc = "done",
                              !.status_code = HTTP_201_CREATED,
                              !.tokens = create_token_pair(user.id,
                                            runs[p].data.tenant_slug,
                                            codes.value, now)]]
    /\ UNCHANGED <<now, poolVars, tokenVars, guardVars, ctxVars,
                   tenants, tenant_settings, schemas>>

\* A storage error in the step the run is at: the exception reaches the
\* route's except clause; what the step had not committed is rolled back.
StorageError(p) ==
    /\ runs[p].pc \in RunningPcs
    /\ runs' = [runs EXCEPT ![p] = FailedRun(@, "OperationalError")]
    /\ UNCHANGED <<now, poolVars, tokenVars, guardVars, ctxVars,
                   tenants, tenant_settings, schemas>>

ProvisionNext ==
    \E p \in Runs :
        \/ Register(p)
        \/ CreateFlush(p)
        \/ CreateCommit(p)
        \/ CreateSchema(p)
        \/ CreateAdminUser(p)
        \/ IssueTokens(p)
        \/ StorageError(p)

SpecProvision == ProvisionInit /\ [][ProvisionNext]_vars

(***************************************************************************)
(* Login specification: POST /auth/login and POST /auth/refresh against a  *)
(* directory as provisioning runs leave it; tenants and identities are     *)
(* activated and deactivated in between.                                   *)
(***************************************************************************)
LoginSlugs == Slugs \cup {"initech", None}
LoginUsernames == {"root", "root@example.test", "nobody"}
LoginInstants == {10, 40}

\* The tokens a client may present to /auth/refresh: refresh tokens as
\* create_refresh_token signs them, for each administrator and tenant, and
\* for one of them an expired one, one with a bad signature and an access
\* token.
\* (exp given in minutes of the clock)
SignedRefreshToken(user_id, tenant_id, exp) ==
    [present |-> TRUE, sig |-> "valid", sub |-> user_id,
     tenant_id |-> tenant_id, type |-> "refresh",
     exp |-> exp * SecondsPerMinute, roles |-> {}]

PresentedTokens ==
    {SignedRefreshToken(UserId(n), slug, 90) : n \in {1, 2}, slug \in Slugs}
    \cup {SignedRefreshToken(UserId(1), "acme", 5),
          [SignedRefreshToken(UserId(1), "acme", 90) EXCEPT !.sig = "invalid"],
          [SignedRefreshToken(UserId(1), "acme", 90) EXCEPT !.type = "access"]}

AdminData(slug) ==
    [tenant_slug |-> slug, admin_username |-> "root",
     admin_email |-> "root@example.test", admin_password |-> "pw-right"]

\* What earlier register_tenant runs left for a slug: nothing; the Tenant
\* row alone (a run that failed in create_schema); or all of it.
ProvisioningResults == {"absent", "stuck", "provisioned"}

LeftTenants(n, slug, result) ==
    CASE result = "absent" -> {}
      [] result = "stuck" -> {NewTenant(TenantId(n), slug)}
      [] OTHER -> {[NewTenant(TenantId(n), slug) EXCEPT !.schema_created = TRUE]}

LeftSchema(result) ==
    IF result = "provisioned" THEN create_schema(NoSchema) ELSE NoSchema

LeftUsers(n, slug, result, g) ==
    IF result = "provisioned"
    THEN {[create_admin_user(UserId(n), AdminData(slug), LeftSchema(result))
             EXCEPT !.failed_login_attempts = g.failed_login_attempts,
                    !.locked_until = g.locked_until]}
    ELSE {}

LoginInit ==
    /\ IdlePool
    /\ now \in LoginInstants
    /\ credentials = NoCredentials
    /\ authResult = NoResult
    /\ lastAuth = NoAuth
    /\ current_tenant_id = [r \in Requests |-> None]
    /\ inflight = [r \in Requests |-> IdleRequest]
    /\ runs = [p \in Runs |-> IdleRun]
    /\ \E second \in ProvisioningResults, g \in StoredGuards :
         /\ tenants = LeftTenants(1, "acme", "provisioned")
                        \cup LeftTenants(2, "globex", second)
         /\ tenant_settings =
              {NewTenantSettings(row.id) :
                 row \in LeftTenants(1, "acme", "provisioned")
                           \cup LeftTenants(2, "globex", second)}
         /\ schemas = [s \in SchemaNames |->
                         IF s = SchemaOf("acme") THEN LeftSchema("provisioned")
                         ELSE LeftSchema(second)]
         /\ users = [s \in SchemaNames |->
                       IF s = SchemaOf("acme")
                       THEN LeftUsers(1, "acme", "provisioned", g)
                       ELSE LeftUsers(2, "globex", second,
                                      [failed_login_attempts |-> 0,
                                       locked_until |-> NullTime])]

\* POST /auth/login, request to response.
Login ==
    \E username \in LoginUsernames, password \in Passwords,
       tenant_slug \in LoginSlugs :
      LET out == login(tenants, schemas, users, username, password,
                       tenant_slug, now)
          response == RouteResponse(out, "Invalid credentials or tenant")
      IN
      /\ users' = IF out.committed
                  THEN [users EXCEPT ![out.schema] =
                          CommitRow(@, out.found, out.row)]
                  ELSE users
      /\ authResult' =
           [op |-> "login", username |-> username, password |-> password,
            tenant_slug |-> tenant_slug, at |-> now,
            tenant |-> IF tenant_slug = None THEN NoTenant
                       ELSE get_by_slug(tenants, tenant_slug),
            before |-> out.found, error |-> out.error,
            tokens |-> out.tokens,
            status_code |-> response.status_code,
            detail |-> response.detail]
      /\ UNCHANGED <<now, poolVars, credentials, lastAuth, ctxVars, dirVars>>

LoginPath == API_V1_PREFIX \o <<"/", "auth", "/", "login">>

\* POST /auth/login with the administrator's credentials and no tenant_slug
\* in the body, the tenant named by X-Tenant-ID and/or the host: the
\* middleware passes the public path on without extraction, the route
\* hands request.tenant_slug to AuthService.login.
LoginByTransport ==
    \E x_tenant_id \in {None, "acme"},
       host \in {<<"localhost">>, <<"acme", "wms", "example", "com">>} :
      LET request == [path |-> LoginPath, authorization |-> NoCredentials,
                      x_tenant_id |-> x_tenant_id, host |-> host]
          body == [username |-> "root", password |-> "pw-right",
                   tenant_slug |-> None]
          state_tenant_id == IF _is_public_path(request.path) THEN None
                             ELSE _extract_tenant(request, MinuteTicks(now))
          out == login(tenants, schemas, users, body.username, body.password,
                       body.tenant_slug, now)
          response == RouteResponse(out, "Invalid credentials or tenant")
      IN
      /\ users' = IF out.committed
                  THEN [users EXCEPT ![out.schema] =
                          CommitRow(@, out.found, out.row)]
                  ELSE users
      /\ authResult' =
           [op |-> "login_transport", request |-> request, body |-> body,
            at |-> now, state_tenant_id |-> state_tenant_id,
            error |-> out.error, tokens |-> out.tokens,
            status_code |-> response.status_code,
            detail |-> response.detail]
      /\ UNCHANGED <<now, poolVars, credentials, lastAuth, ctxVars, dirVars>>

\* POST /auth/refresh, request to response.
Refresh ==
    \E token \in PresentedTokens :
      LET out == refresh_token(tenants, schemas, users, token, now)
          response == RouteResponse(out, "Invalid or expired refresh token")
      IN
      /\ authResult' =
           [op |-> "refresh", token |-> token, at |-> now,
            tenant |-> get_by_slug(tenants, token.tenant_id),
            before |-> out.found, error |-> out.error,
            tokens |-> out.tokens,
            status_code |-> response.status_code,
            detail |-> response.detail]
      /\ UNCHANGED <<now, poolVars, credentials, guardVars, ctxVars, dirVars>>

\* TenantService.delete (is_active = False) and TenantService.update with
\* is_active in the payload.
TenantSetActive ==
    \E row \in tenants, v \in BOOLEAN :
      /\ row.is_active # v
      /\ tenants' = (tenants \ {row}) \cup {[row EXCEPT !.is_active = v]}
      /\ authResult' = NoResult
      /\ UNCHANGED <<now, poolVars, credentials, guardVars, ctxVars,
                     tenant_settings, schemas, runs>>

\* DELETE /tenants/{tenant_id}, request to response.
TenantDelete ==
    \E tenant_id \in {TenantId(n) : n \in 1..3} :
      /\ tenants' = TenantService_delete(tenants, tenant_id)
      /\ authResult' = [op |-> "delete_tenant", tenant_id |-> tenant_id,
                        status_code |-> IF TenantExists(tenants, tenant_id)
                                        THEN HTTP_200_OK ELSE HTTP_404_NOT_FOUND]
      /\ UNCHANGED <<now, poolVars, credentials, guardVars, ctxVars,
                     tenant_settings, schemas, runs>>

\* UserService.update with is_active in the payload, on acme's identities.
IdentitySetActive ==
    \E s \in {SchemaOf("acme")} : \E u \in users[s] : \E v \in BOOLEAN :
      /\ ~u.is_deleted
      /\ u.is_active # v
      /\ users' = [users EXCEPT ![s] = CommitRow(@, u, [u EXCEPT !.is_active = v])]
      /\ authResult' = NoResult
      /\ UNCHANGED <<now, poolVars, credentials, lastAuth, ctxVars, dirVars>>

\* UserService.delete (soft delete), on acme's identities.
IdentitySoftDelete ==
    \E s \in {SchemaOf("acme")} : \E u \in users[s] :
      /\ ~u.is_deleted
      /\ users' = [users EXCEPT ![s] = CommitRow(@, u, [u EXCEPT !.is_deleted = TRUE])]
      /\ authResult' = NoResult
      /\ UNCHANGED <<now, poolVars, credentials, lastAuth, ctxVars, dirVars>>

\* The lookups of UserService against a partition: by id, by email, by
\* username, and the listing; each with what it returns.
Lookups(table) ==
    {[by |-> "id", rows |-> {get_by_id(table, UserId(n))} \ {NoUser}] :
        n \in {1, 2}}
    \cup {[by |-> "email",
           rows |-> {get_by_email(table, "root@example.test")} \ {NoUser}],
          [by |-> "username",
           rows |-> {get_by_username(table, "root")} \ {NoUser}]}
    \cup {[by |-> "list", rows |-> list(table, is_active, role_code)] :
             is_active \in {BOOLEAN, {TRUE}}, role_code \in {None, "admin"}}

UserLookup ==
    \E s \in SchemaNames : \E lookup \in Lookups(users[s]) :
      /\ authResult' = [op |-> "lookup", by |-> lookup.by, schema |-> s,
                        rows |-> lookup.rows]
      /\ UNCHANGED <<now, poolVars, credentials, guardVars, ctxVars, dirVars>>

LoginNext ==
    \/ Login
    \/ Refresh
    \/ TenantSetActive
    \/ IdentitySetActive
    \/ IdentitySoftDelete
    \/ UserLookup
    \/ LoginByTransport
    \/ TenantDelete

SpecLogin == LoginInit /\ [][LoginNext]_vars

(***************************************************************************)
(* Pool specification: concurrent requests of the users API and of         *)
(* registration, each with its own AsyncSession on the shared engine.      *)
(***************************************************************************)
PoolInit ==
    /\ IdlePool
    /\ now = 0
    /\ credentials = NoCredentials
    /\ authResult = NoResult
    /\ users = [s \in SchemaNames |-> {}]
    /\ lastAuth = NoAuth
    /\ current_tenant_id = [r \in Requests |-> None]
    /\ inflight = [r \in Requests |-> IdleRequest]
    /\ EmptyDirectory

NextStmt(r) == Statements(sessions[r].handler, sessions[r].tenant)[sessions[r].pc]

Running(r, kind) == sessions[r].pc > 0 /\ NextStmt(r).kind = kind

PoolFrame == UNCHANGED <<now, tokenVars, guardVars, ctxVars, dirVars>>

\* get_db: AsyncSessionLocal() for a request of some handler and tenant; the
\* session holds no connection until its first statement.
OpenSession(r) ==
    /\ sessions[r].pc = 0
    /\ \E handler \in HandlerNames : \E slug \in Slugs :
         sessions' = [sessions EXCEPT ![r] =
                        [pc |-> 1, handler |-> handler, tenant |-> slug,
                         conn |-> NoConnection, txn_path |-> DefaultSearchPath,
                         bound |-> FALSE, accessed |-> {}]]
    /\ UNCHANGED <<pool, connections>>
    /\ PoolFrame

\* session.execute(text("SET search_path TO ...")): the setting takes effect
\* in the session's transaction.
SetSearchPath(r) ==
    /\ Running(r, "set")
    /\ LET co == Checkout(sessions[r], pool, connections) IN
       /\ co.ok
       /\ pool' = co.pool
       /\ connections' = co.connections
       /\ sessions' = [sessions EXCEPT
                         ![r].pc = @ + 1,
                         ![r].conn = co.conn,
                         ![r].txn_path = NextStmt(r).search_path,
                         ![r].bound = TRUE]
    /\ PoolFrame

\* The statements of one transaction up to its commit or the close: they
\* run on the session's connection under the search_path in effect there.
Execute(r) ==
    /\ Running(r, "execute")
    /\ LET co == Checkout(sessions[r], pool, connections)
           stmt == NextStmt(r)
       IN
       /\ co.ok
       /\ pool' = co.pool
       /\ connections' = co.connections
       /\ sessions' = [sessions EXCEPT
                         ![r].pc = @ + 1,
                         ![r].conn = co.conn,
                         ![r].txn_path = co.txn_path,
                         ![r].accessed =
                             IF stmt.scoped
                             THEN @ \cup {[stmts |-> stmt.stmts,
                                           bound |-> sessions[r].bound,
                                           partition |-> Partition(co.txn_path)]}
                             ELSE @]
    /\ PoolFrame

\* session.commit(): the transaction's search_path becomes the connection's
\* and the connection returns to the pool.
Commit(r) ==
    /\ Running(r, "commit")
    /\ IF sessions[r].conn = NoConnection
       THEN UNCHANGED <<pool, connections>>
       ELSE /\ connections' = [connections EXCEPT
                                 ![sessions[r].conn].search_path =
                                     sessions[r].txn_path]
            /\ pool' = Release(pool, sessions[r].conn)
    /\ sessions' = [sessions EXCEPT ![r].pc = @ + 1,
                                    ![r].conn = NoConnection]
    /\ PoolFrame

\* session.close(): an open transaction is rolled back, its SET with it, and
\* the connection returns to the pool.
Close(r) ==
    /\ Running(r, "close")
    /\ pool' = IF sessions[r].conn = NoConnection THEN pool
               ELSE Release(pool, sessions[r].conn)
    /\ sessions' = [sessions EXCEPT ![r] = IdleSession]
    /\ UNCHANGED connections
    /\ PoolFrame

PoolNext ==
    \E r \in Requests :
        \/ OpenSession(r)
        \/ SetSearchPath(r)
        \/ Execute(r)
        \/ Commit(r)
        \/ Close(r)

SpecPool == PoolInit /\ [][PoolNext]_vars

(***************************************************************************)
(* Identity-administration specification: the administrator of the         *)
(* provisioned tenant acme creates and deletes identities in its           *)
(* partition.                                                              *)
(***************************************************************************)
NewEmails == {"root@example.test", "kim@example.test"}
NewUsernames == {"root", "kim"}

UsersInit ==
    /\ IdlePool
    /\ now = 0
    /\ credentials = NoCredentials
    /\ authResult = NoResult
    /\ lastAuth = NoAuth
    /\ current_tenant_id = [r \in Requests |-> None]
    /\ inflight = [r \in Requests |-> IdleRequest]
    /\ runs = [p \in Runs |-> IdleRun]
    /\ tenants = LeftTenants(1, "acme", "provisioned")
    /\ tenant_settings =
         {NewTenantSettings(row.id) : row \in LeftTenants(1, "acme", "provisioned")}
    /\ schemas = [s \in SchemaNames |->
                    IF s = SchemaOf("acme") THEN LeftSchema("provisioned")
                    ELSE NoSchema]
    /\ users = [s \in SchemaNames |->
                  IF s = SchemaOf("acme")
                  THEN LeftUsers(1, "acme", "provisioned",
                                 [failed_login_attempts |-> 0,
                                  locked_until |-> NullTime])
                  ELSE {}]

UsersFrame == UNCHANGED <<now, poolVars, credentials, lastAuth, ctxVars, dirVars>>

\* POST /users by the administrator.
CreateUser ==
    \E email \in NewEmails, username \in NewUsernames, role_ids \in SUBSET SeedRoles :
      LET s == SchemaOf("acme")
          data == [email |-> email, username |-> username,
                   password |-> "pw-right", role_ids |-> role_ids]
          out == create_user(users[s], data)
      IN
      /\ Cardinality(users[s]) < MaxUsers
      /\ users' = [users EXCEPT ![s] = out.table]
      /\ authResult' = [op |-> "create_user", data |-> data, before |-> users[s],
                        status_code |-> out.status_code, error |-> out.error,
                        detail |-> out.detail, user |-> out.user]
      /\ UsersFrame

\* DELETE /users/{user_id} by the administrator (UserId(1)): not its own
\* account; UserService.delete soft-deletes a row that get_by_id finds.
DeleteUser ==
    \E u \in users[SchemaOf("acme")] :
      LET s == SchemaOf("acme")
          found == get_by_id(users[s], u.id)
      IN
      /\ u.id # UserId(1)
      /\ users' = IF found = NoUser THEN users
                  ELSE [users EXCEPT ![s] =
                          CommitRow(@, found, [found EXCEPT !.is_deleted = TRUE])]
      /\ authResult' = [op |-> "delete_user", user_id |-> u.id,
                        status_code |-> IF found = NoUser THEN HTTP_404_NOT_FOUND
                                        ELSE HTTP_200_OK]
      /\ UsersFrame

UsersNext ==
    \/ CreateUser
    \/ DeleteUser

SpecUsers == UsersInit /\ [][UsersNext]_vars

(***************************************************************************)
(* Role-change specification: the roles of acme's administrator are        *)
(* changed (PATCH /users/{id} with role_ids) while a client holds tokens   *)
(* issued to it, refreshes them and calls role-protected endpoints as the  *)
(* clock advances.                                                         *)
(***************************************************************************)
NoRoleChange == [op |-> "none"]

RolesInit ==
    /\ UsersInit
    /\ lastAuth = NoRoleChange

\* The refresh token the client holds for the administrator.
HeldRefreshToken ==
    SignedRefreshToken(UserId(1), "acme", REFRESH_TOKEN_EXPIRE_DAYS * MinutesPerDay)

\* UserService.update with role_ids: the identity's user_roles rows are
\* replaced.
UpdateRoles ==
    \E role_ids \in SUBSET SeedRoles :
      LET s == SchemaOf("acme")
          user == get_by_id(users[s], UserId(1))
      IN
      /\ user # NoUser
      /\ user.roles # role_ids
      /\ users' = [users EXCEPT ![s] = CommitRow(@, user, [user EXCEPT !.roles = role_ids])]
      /\ lastAuth' = [op |-> "update_roles", at |-> now, user_id |-> user.id]
      /\ authResult' = [op |-> "update_user", user_id |-> user.id]
      /\ UNCHANGED <<now, poolVars, credentials, ctxVars, dirVars>>

\* POST /auth/refresh with the held refresh token; the client keeps the
\* access token of the answer.
RefreshHeld ==
    LET out == refresh_token(tenants, schemas, users, HeldRefreshToken, now)
        response == RouteResponse(out, "Invalid or expired refresh token")
    IN
    /\ authResult' = [op |-> "refresh", token |-> HeldRefreshToken, at |-> now,
                      tenant |-> get_by_slug(tenants, HeldRefreshToken.tenant_id),
                      before |-> out.found, error |-> out.error,
                      tokens |-> out.tokens,
                      status_code |-> response.status_code,
                      detail |-> response.detail]
    /\ credentials' = IF out.tokens = NoTokens THEN credentials
                      ELSE out.tokens.access_token
    /\ UNCHANGED <<now, poolVars, guardVars, ctxVars, dirVars>>

\* A role-protected endpoint called with the access token the client holds.
Authorize ==
    /\ credentials.present
    /\ \E required_roles \in {{"admin"}, {"user"}} :
         authResult' = [op |-> "authorize", at |-> now,
                        required_roles |-> required_roles,
                        out |-> role_checker(required_roles, credentials,
                                             MinuteTicks(now))]
    /\ UNCHANGED <<now, poolVars, credentials, guardVars, ctxVars, dirVars>>

RolesTick ==
    /\ now + StepMinutes <= MaxClock
    /\ now' = now + StepMinutes
    /\ UNCHANGED <<poolVars, tokenVars, guardVars, ctxVars, dirVars>>

RolesNext ==
    \/ UpdateRoles
    \/ RefreshHeld
    \/ Authorize
    \/ RolesTick

SpecRoles == RolesInit /\ [][RolesNext]_vars

(***************************************************************************)
(* Tenant-administration specification: the platform's tenant routes       *)
(* (create, update, deactivate) and a tenant administrator's settings      *)
(* update, called one after the other on the shared directory.             *)
(***************************************************************************)
TenantIds == {TenantId(n) : n \in 1..3}

TenantsInit ==
    /\ IdlePool
    /\ now = 0
    /\ credentials = NoCredentials
    /\ authResult = NoResult
    /\ users = [s \in SchemaNames |-> {}]
    /\ lastAuth = NoAuth
    /\ current_tenant_id = [r \in Requests |-> None]
    /\ inflight = [r \in Requests |-> IdleRequest]
    /\ EmptyDirectory

TenantsFrame == UNCHANGED <<now, poolVars, credentials, guardVars, ctxVars, runs>>

\* POST /tenants: 400 when the slug is taken; else TenantService.create,
\* then create_schema, which either commits the partition or raises (the
\* row create committed stays, the route answers 400).
CreateTenant ==
    \E slug \in Slugs, created \in BOOLEAN :
      LET id == TenantId(Cardinality(tenants) + 1)
          existing == \E row \in tenants : row.slug = slug
      IN
      /\ IF existing
         THEN UNCHANGED <<tenants, tenant_settings, schemas>>
         ELSE /\ tenants' = tenants \cup
                   {[NewTenant(id, slug) EXCEPT !.schema_created = created]}
              /\ tenant_settings' = tenant_settings \cup {NewTenantSettings(id)}
              /\ schemas' = IF created
                            THEN [schemas EXCEPT ![SchemaOf(slug)] = create_schema(@)]
                            ELSE schemas
      /\ authResult' = [op |-> "create_tenant", slug |-> slug,
                        status_code |-> IF existing \/ ~created
                                        THEN HTTP_400_BAD_REQUEST
                                        ELSE HTTP_201_CREATED]
      /\ TenantsFrame

\* PATCH /tenants/{tenant_id}
UpdateTenant ==
    \E tenant_id \in TenantIds, body \in TenantBodies :
      /\ tenants' = TenantService_update(tenants, tenant_id, body)
      /\ authResult' = [op |-> "update_tenant", tenant_id |-> tenant_id,
                        body |-> body,
                        status_code |-> IF TenantExists(tenants, tenant_id)
                                        THEN HTTP_200_OK ELSE HTTP_404_NOT_FOUND]
      /\ UNCHANGED <<tenant_settings, schemas>>
      /\ TenantsFrame

\* DELETE /tenants/{tenant_id}
DeleteTenant ==
    \E tenant_id \in TenantIds :
      /\ tenants' = TenantService_delete(tenants, tenant_id)
      /\ authResult' = [op |-> "delete_tenant", tenant_id |-> tenant_id,
                        status_code |-> IF TenantExists(tenants, tenant_id)
                                        THEN HTTP_200_OK ELSE HTTP_404_NOT_FOUND]
      /\ UNCHANGED <<tenant_settings, schemas>>
      /\ TenantsFrame

\* PATCH /tenants/current/settings by an administrator of tenant slug.
UpdateSettings ==
    \E slug \in Slugs, ui_theme \in UiThemes :
      LET found == \E row \in tenants : row.slug = slug
          tenant == get_by_slug(tenants, slug)
      IN
      /\ tenant_settings' = IF found
                            THEN TenantService_update_settings(
                                     tenant_settings, tenant.id, ui_theme)
                            ELSE tenant_settings
      /\ authResult' = [op |-> "update_settings", slug |-> slug,
                        ui_theme |-> ui_theme,
                        status_code |-> IF found THEN HTTP_200_OK
                                        ELSE HTTP_404_NOT_FOUND]
      /\ UNCHANGED <<tenants, schemas>>
      /\ TenantsFrame

TenantsNext ==
    \/ CreateTenant
    \/ UpdateTenant
    \/ DeleteTenant
    \/ UpdateSettings

SpecTenants == TenantsInit /\ [][TenantsNext]_vars

(***************************************************************************)
(* Extraction specification: _extract_tenant applied to one inbound        *)
(* request, drawn from every combination of Authorization, X-Tenant-ID     *)
(* and Host.                                                               *)
(***************************************************************************)
ExtractInit ==
    /\ IdlePool
    /\ now \in {0, 1}
    /\ credentials = NoCredentials
    /\ authResult = NoResult
    /\ users = [s \in SchemaNames |-> {}]
    /\ lastAuth = NoAuth
    /\ current_tenant_id = [r \in Requests |-> None]
    /\ \E request \in ExtractRequests :
         inflight = [r \in Requests |->
                       IF r = 1 THEN [pc |-> "dispatch", request |-> request]
                       ELSE IdleRequest]
    /\ EmptyDirectory

ExtractTenant ==
    /\ inflight[1].pc = "dispatch"
    /\ authResult' = [op |-> "extract_tenant",
                      out |-> _extract_tenant_call(inflight[1].request,
                                                   MinuteTicks(now))]
    /\ inflight' = [inflight EXCEPT ![1].pc = "extracted"]
    /\ UNCHANGED <<now, poolVars, credentials, guardVars, current_tenant_id,
                   dirVars>>

ExtractNext == ExtractTenant

SpecExtract == ExtractInit /\ [][ExtractNext]_vars

(***************************************************************************)
(* User-management specification: acme's administrator (root) and an       *)
(* ordinary identity (kim) call the users routes, on their own ids, on     *)
(* each other's and on an id no row has.                                   *)
(***************************************************************************)
Kim == [NewUser(UserId(2), "kim", "kim@example.test", "pw-right")
          EXCEPT !.roles = {"user"}]

\* The verified token payloads the requests are made with.
Callers ==
    {[sub |-> UserId(1), roles |-> {"admin"}],
     [sub |-> UserId(2), roles |-> {"user"}],
     [sub |-> UserId(2), roles |-> {}]}

TargetIds == {UserId(n) : n \in 1..3}

ManageInit ==
    /\ IdlePool
    /\ now = 0
    /\ credentials = NoCredentials
    /\ authResult = NoResult
    /\ lastAuth = NoAuth
    /\ current_tenant_id = [r \in Requests |-> None]
    /\ inflight = [r \in Requests |-> IdleRequest]
    /\ runs = [p \in Runs |-> IdleRun]
    /\ tenants = LeftTenants(1, "acme", "provisioned")
    /\ tenant_settings =
         {NewTenantSettings(row.id) : row \in LeftTenants(1, "acme", "provisioned")}
    /\ schemas = [s \in SchemaNames |->
                    IF s = SchemaOf("acme") THEN LeftSchema("provisioned")
                    ELSE NoSchema]
    /\ users = [s \in SchemaNames |->
                  IF s = SchemaOf("acme")
                  THEN LeftUsers(1, "acme", "provisioned",
                                 [failed_login_attempts |-> 0,
                                  locked_until |-> NullTime]) \cup {Kim}
                  ELSE {}]

\* The request is answered with the status of out.
Answered(op, caller, user_id, out) ==
    /\ authResult' = [op |-> op, caller |-> caller, user_id |-> user_id,
                      status_code |-> out.status_code]
    /\ UNCHANGED <<now, poolVars, credentials, lastAuth, ctxVars, dirVars>>

\* The partition holds the table the route left.
Stored(out) == [users EXCEPT ![SchemaOf("acme")] = out.table]

ManageUpdate ==
    \E caller \in Callers, user_id \in TargetIds, data \in UserBodies :
      LET out == update_user(caller, user_id, data, users[SchemaOf("acme")]) IN
      /\ users' = Stored(out)
      /\ Answered("update_user", caller, user_id, out)

ManageDelete ==
    \E caller \in Callers, user_id \in TargetIds :
      LET out == delete_user(caller, user_id, users[SchemaOf("acme")]) IN
      /\ users' = Stored(out)
      /\ Answered("delete_user", caller, user_id, out)

ManageDeactivate ==
    \E caller \in Callers, user_id \in TargetIds :
      LET out == deactivate_user(caller, user_id, users[SchemaOf("acme")]) IN
      /\ users' = Stored(out)
      /\ Answered("deactivate_user", caller, user_id, out)

ManageActivate ==
    \E caller \in Callers, user_id \in TargetIds :
      LET out == activate_user(caller, user_id, users[SchemaOf("acme")]) IN
      /\ users' = Stored(out)
      /\ Answered("activate_user", caller, user_id, out)

ManageResetPassword ==
    \E caller \in Callers, user_id \in TargetIds :
      LET out == reset_user_password(caller, user_id, "pw-reset",
                                     users[SchemaOf("acme")]) IN
      /\ users' = Stored(out)
      /\ Answered("reset_user_password", caller, user_id, out)

\* POST /users with data whose username an identity holds already.
ManageCreate ==
    \E caller \in Callers :
      LET out == create_user_by(caller,
                     [email |-> "lee@example.test", username |-> "kim",
                      password |-> "pw-right", role_ids |-> {"admin"}],
                     users[SchemaOf("acme")]) IN
      /\ users' = Stored(out)
      /\ Answered("create_user", caller, UserId(3), out)

ManageNext ==
    \/ ManageUpdate
    \/ ManageDelete
    \/ ManageDeactivate
    \/ ManageActivate
    \/ ManageResetPassword
    \/ ManageCreate

SpecManage == ManageInit /\ [][ManageNext]_vars

(***************************************************************************)
(* Concurrent-login specification: requests with a wrong password for the  *)
(* same identity, each a run of UserService.authenticate in its own        *)
(* session: the SELECT and the password check in one step, db.commit()     *)
(* (the UPDATE and COMMIT) in a later one.                                 *)
(***************************************************************************)
NoChecks == [op |-> "failed_checks", completed |-> 0, started |-> 0]

RaceInit ==
    /\ IdlePool
    /\ now = 0
    /\ credentials = NoCredentials
    /\ authResult = NoResult
    /\ users = [s \in SchemaNames |->
                  IF s = GuardSchema
                  THEN {NewUser(UserId(0), "alice", "alice@acme.test", "pw-right")}
                  ELSE {}]
    /\ lastAuth = NoChecks
    /\ current_tenant_id = [r \in Requests |-> None]
    /\ inflight = [r \in Requests |-> IdleRequest]
    /\ EmptyDirectory

\* authenticate up to db.commit(): the row is selected, the lock and the
\* password are checked, the session's instance is mutated.
CheckPassword(r) ==
    /\ inflight[r].pc = "idle"
    /\ lastAuth.started < MaxFailed
    /\ LET done == authenticate(users[GuardSchema], "alice", "pw-wrong", now) IN
       /\ inflight' = [inflight EXCEPT ![r] =
                         IF done.password_checked
                         THEN [pc |-> "commit", done |-> done]
                         ELSE IdleRequest]
       /\ lastAuth' = [lastAuth EXCEPT !.started = @ + 1]
       /\ authResult' = [op |-> "check_password", request |-> r,
                         password_checked |-> done.password_checked,
                         read |-> done.found.failed_login_attempts]
    /\ UNCHANGED <<now, poolVars, credentials, users, current_tenant_id, dirVars>>

\* db.commit(): UPDATE users SET failed_login_attempts = <the value the
\* session computed>[, locked_until = ...] WHERE id = ..., then COMMIT; a
\* flush that raises stores nothing.  The failed check is complete.
CommitAttempt(r) ==
    /\ inflight[r].pc = "commit"
    /\ LET done == inflight[r].done
           stored == get_by_id(users[GuardSchema], done.found.id)
       IN
       /\ users' = IF done.committed
                   THEN [users EXCEPT ![GuardSchema] =
                           CommitRow(@, stored,
                              [stored EXCEPT
                                 !.failed_login_attempts =
                                     done.row.failed_login_attempts,
                                 !.locked_until = done.row.locked_until])]
                   ELSE users
       /\ authResult' = [op |-> "commit_attempt", request |-> r,
                         outcome |-> done.outcome,
                         read |-> done.found.failed_login_attempts]
    /\ inflight' = [inflight EXCEPT ![r] = IdleRequest]
    /\ lastAuth' = [lastAuth EXCEPT !.completed = @ + 1]
    /\ UNCHANGED <<now, poolVars, credentials, current_tenant_id, dirVars>>

RaceNext == \E r \in Requests : CheckPassword(r) \/ CommitAttempt(r)

SpecRace == RaceInit /\ [][RaceNext]_vars

(***************************************************************************)
(* Scoping specification: two requests to tenant-scoped endpoints (the     *)
(* users routes, /auth/me, /auth/change-password), each with its own       *)
(* Authorization, X-Tenant-ID and Host, from the middleware to the          *)
(* handler's SET search_path.                                              *)
(***************************************************************************)
\* A session whose search_path is never set for the tenant.
get_tenant_db_session_NoSet(current_user) == DefaultSearchPath

\* get_tenant_db_session(current_user, db), and the same lines at the head
\* of get_current_user and change_password: the search_path of the session
\* when the handler queries.
get_tenant_db_session(current_user) ==
    IF current_user.tenant_id # ""
    THEN TenantSearchPath(current_user.tenant_id)
    ELSE DefaultSearchPath

ScopedHandlers == {"list_users", "get_current_user", "change_password"}

BearerGlobex == [BearerAcme EXCEPT !.tenant_id = "globex"]

ScopedRequests ==
    [path : {API_V1_PREFIX \o <<"/", "users">>},
     handler : ScopedHandlers,
     authorization : {NoCredentials, BearerForged, BearerAcme, BearerGlobex},
     x_tenant_id : {None, "acme", "globex"},
     host : {<<"localhost">>, <<"acme", "wms", "example", "com">>,
             <<"globex", "wms", "example", "com">>}]

ScopeInit ==
    /\ IdlePool
    /\ now = 0
    /\ credentials = NoCredentials
    /\ authResult = NoResult
    /\ users = [s \in SchemaNames |-> {}]
    /\ lastAuth = NoAuth
    /\ current_tenant_id = [r \in Requests |-> None]
    /\ inflight \in [Requests -> [pc : {"dispatch"}, request : ScopedRequests]]
    /\ EmptyDirectory

\* One request through TenantMiddleware.dispatch and its handler: the
\* middleware stores the extracted tenant unless the path is public, the
\* CurrentUser dependency verifies the token, the handler sets the
\* search_path and queries, and on return the middleware clears the
\* context it set.
HandleScoped(r) ==
    /\ inflight[r].pc = "dispatch"
    /\ LET request == inflight[r].request
           state_tenant_id == IF _is_public_path(request.path) THEN None
                              ELSE _extract_tenant(request, MinuteTicks(now))
           dep == get_current_user_token(request.authorization, MinuteTicks(now))
       IN
       /\ current_tenant_id' =
              IF _is_public_path(request.path) THEN current_tenant_id
              ELSE set_current_tenant(current_tenant_id, r, None)
       /\ inflight' = [inflight EXCEPT ![r] =
              [pc |-> "done", request |-> request,
               state_tenant_id |-> state_tenant_id,
               status_code |-> IF dep.raised THEN dep.status_code ELSE HTTP_200_OK,
               partition |-> IF dep.raised THEN None
                             ELSE Partition(get_tenant_db_session(dep.value))]]
    /\ UNCHANGED <<now, poolVars, tokenVars, guardVars, dirVars>>

ScopeNext == \E r \in Requests : HandleScoped(r)

SpecScope == ScopeInit /\ [][ScopeNext]_vars

(***************************************************************************)
(* Acceptance specification: a client holds the access token its refresh   *)
(* issued for acme's administrator and calls GET /users with it, while     *)
(* the identity is deactivated, soft-deleted or stripped of its roles,     *)
(* its tenant is deactivated, and the clock advances.                      *)
(***************************************************************************)
\* GET /users refusing the token of an identity that is no longer active
\* in storage, or whose tenant is not.
list_users_CheckStored(creds, directory, schemata, tables, t) ==
    LET dep == get_current_user_token(creds, t)
        tenant == IF dep.raised THEN NoTenant
                  ELSE get_by_slug(directory, dep.value.tenant_id)
        user == IF dep.raised \/ tenant = NoTenant THEN NoUser
                ELSE get_by_id(tables[tenant.schema_name], dep.value.sub)
    IN  IF dep.raised
        THEN [status_code |-> dep.status_code, items |-> {}]
        ELSE IF tenant = NoTenant \/ user = NoUser
        THEN [status_code |-> HTTP_401_UNAUTHORIZED, items |-> {}]
        ELSE IF ~tenant.is_active \/ ~user.is_active
        THEN [status_code |-> HTTP_401_UNAUTHORIZED, items |-> {}]
        ELSE IF "admin" \notin dep.value.roles
        THEN [status_code |-> HTTP_403_FORBIDDEN, items |-> {}]
        ELSE [status_code |-> HTTP_200_OK,
              items |-> list(tables[tenant.schema_name], BOOLEAN, None)]

\* GET /users without filters: the CurrentUser dependency, the session of
\* get_tenant_db_session, the administrator test, UserService.list.
list_users(creds, directory, schemata, tables, t) ==
    LET dep == get_current_user_token(creds, t) IN
    IF dep.raised
    THEN [status_code |-> dep.status_code, items |-> {}]
    ELSE
    LET partition == Partition(get_tenant_db_session(dep.value))
        bound == IF partition \in SchemaNames
                 THEN ResolveUsers(schemata, partition) ELSE None
    IN  IF "admin" \notin dep.value.roles
        THEN [status_code |-> HTTP_403_FORBIDDEN, items |-> {}]
        ELSE IF bound = None
        THEN [status_code |-> HTTP_500_INTERNAL_SERVER_ERROR, items |-> {}]
        ELSE [status_code |-> HTTP_200_OK,
              items |-> list(tables[bound], BOOLEAN, None)]

\* acme provisioned, its administrator's guard columns as stored before.
AcceptInit ==
    /\ IdlePool
    /\ now = 0
    /\ credentials = NoCredentials
    /\ authResult = NoResult
    /\ lastAuth = NoRoleChange
    /\ current_tenant_id = [r \in Requests |-> None]
    /\ inflight = [r \in Requests |-> IdleRequest]
    /\ runs = [p \in Runs |-> IdleRun]
    /\ tenants = LeftTenants(1, "acme", "provisioned")
    /\ tenant_settings =
         {NewTenantSettings(row.id) : row \in LeftTenants(1, "acme", "provisioned")}
    /\ schemas = [s \in SchemaNames |->
                    IF s = SchemaOf("acme") THEN LeftSchema("provisioned")
                    ELSE NoSchema]
    /\ \E g \in StoredGuards :
         users = [s \in SchemaNames |->
                    IF s = SchemaOf("acme")
                    THEN LeftUsers(1, "acme", "provisioned", g)
                    ELSE {}]

\* GET /users with the access token the client holds.
ListUsers ==
    /\ credentials.present
    /\ LET out == list_users(credentials, tenants, schemas, users,
                             MinuteTicks(now))
       IN  authResult' = [op |-> "list_users", at |-> now,
                          token |-> credentials,
                          status_code |-> out.status_code,
                          items |-> out.items]
    /\ UNCHANGED <<now, poolVars, credentials, guardVars, ctxVars, dirVars>>

AcceptNext ==
    \/ RefreshHeld
    \/ ListUsers
    \/ UpdateRoles
    \/ IdentitySetActive
    \/ IdentitySoftDelete
    \/ TenantSetActive
    \/ RolesTick

SpecAccept == AcceptInit /\ [][AcceptNext]_vars

(***************************************************************************)
(* Claims about token verification and the role check (SpecToken).         *)
(***************************************************************************)
\* The presented credential is a correctly signed, unexpired access token at t.
VerifiedAccess(creds, t) ==
    /\ creds.present
    /\ creds.sig = "valid"
    /\ creds.type = "access"
    /\ t <= creds.exp * TicksPerSecond

\* C3: verify_token accepts a token exactly when its signature validates, its
\* kind is the expected kind and its expiry has not passed; a protected
\* endpoint never accepts a refresh token and the refresh verification never
\* accepts an access token.
C3_VerifyTokenAcceptsIff ==
    /\ authResult.op = "verify_token" =>
         /\ (authResult.payload # NoPayload) <=>
              /\ credentials.sig = "valid"
              /\ credentials.type = authResult.token_type
              /\ authResult.at <= credentials.exp * TicksPerSecond
         /\ (authResult.token_type = "refresh" /\ credentials.type = "access")
              => authResult.payload = NoPayload
    /\ (authResult.op = "get_current_user_token" /\ credentials.present
          /\ credentials.type = "refresh")
         => (authResult.out.raised
               /\ authResult.out.status_code = HTTP_401_UNAUTHORIZED)

\* A correctly signed, unexpired refresh token was presented to a protected
\* endpoint and rejected.
C3_Witness ==
    /\ authResult.op = "get_current_user_token"
    /\ credentials.present
    /\ credentials.sig = "valid"
    /\ credentials.type = "refresh"
    /\ authResult.at <= credentials.exp * TicksPerSecond
    /\ authResult.out.raised

\* C16: a correctly signed token of the expected kind is accepted at every
\* instant up to and including its expiry and rejected at every later
\* instant, a fraction of a second after expiry included.
C16_RejectedExactlyAfterExpiry ==
    (/\ authResult.op = "verify_token"
     /\ credentials.sig = "valid"
     /\ credentials.type = authResult.token_type)
    => /\ authResult.at <= credentials.exp * TicksPerSecond
            => authResult.payload # NoPayload
       /\ authResult.at > credentials.exp * TicksPerSecond
            => authResult.payload = NoPayload

\* Such a token was rejected one tick after its expiry, within the second
\* in which jwt.decode still takes it as unexpired.
C16_Witness ==
    /\ authResult.op = "verify_token"
    /\ credentials.sig = "valid"
    /\ credentials.type = authResult.token_type
    /\ authResult.at = credentials.exp * TicksPerSecond + 1
    /\ decode_token(credentials, authResult.at) # NoPayload
    /\ authResult.payload = NoPayload

\* Such a token was accepted at the instant of its expiry.
C16_AcceptedAtExpiry ==
    /\ authResult.op = "verify_token"
    /\ credentials.sig = "valid"
    /\ credentials.type = authResult.token_type
    /\ authResult.at = credentials.exp * TicksPerSecond
    /\ authResult.payload # NoPayload

\* C7: a verified access token holding admin passes the role check for
\* every required role set.
C7_AdminPassesAnyRequiredSet ==
    (/\ authResult.op = "require_roles"
     /\ VerifiedAccess(credentials, authResult.at)
     /\ "admin" \in credentials.roles)
    => (/\ ~authResult.out.raised
        /\ authResult.out.value.roles = credentials.roles)

\* An admin token passed a check whose required set it does not intersect
\* (the empty set or roles it does not hold).
C7_Witness ==
    /\ authResult.op = "require_roles"
    /\ VerifiedAccess(credentials, authResult.at)
    /\ credentials.roles = {"admin"}
    /\ authResult.required_roles = {"manager"}
    /\ ~authResult.out.raised

\* C8: a verified access token without admin is allowed exactly when its
\* role set intersects the required set, and otherwise gets 403 (so with
\* an empty required set it is denied).
C8_NonAdminAllowedIffIntersect ==
    (/\ authResult.op = "require_roles"
     /\ VerifiedAccess(credentials, authResult.at)
     /\ "admin" \notin credentials.roles)
    => (/\ ~authResult.out.raised
            <=> (credentials.roles \cap authResult.required_roles # {})
        /\ authResult.out.raised
            => authResult.out.status_code = HTTP_403_FORBIDDEN)

\* A non-admin token holding roles was denied with 403 on an empty required set.
C8_Witness ==
    /\ authResult.op = "require_roles"
    /\ VerifiedAccess(credentials, authResult.at)
    /\ credentials.roles = {"user", "manager"}
    /\ authResult.required_roles = {}
    /\ authResult.out.raised
    /\ authResult.out.status_code = HTTP_403_FORBIDDEN

\* The protected operations of the token specification.
ProtectedOps == {"get_current_user_token", "require_roles", "get_user"}

\* The verified token of the request does not hold what the operation
\* requires: a role of the required set or admin; for get_user, admin or
\* being the target.
LacksRequiredRole ==
    CASE authResult.op = "require_roles" ->
           /\ "admin" \notin credentials.roles
           /\ authResult.required_roles \cap credentials.roles = {}
      [] authResult.op = "get_user" ->
           /\ "admin" \notin credentials.roles
           /\ authResult.user_id # credentials.sub
      [] OTHER -> FALSE

\* C23: a protected operation answers a request without a verified access
\* token with 401, and a request whose verified access token lacks the
\* required role with 403, whether or not the target exists.
C23_OutcomesNotConflated ==
    authResult.op \in ProtectedOps
    => /\ ~VerifiedAccess(credentials, authResult.at)
          => /\ authResult.out.raised
             /\ authResult.out.status_code = HTTP_401_UNAUTHORIZED
       /\ (VerifiedAccess(credentials, authResult.at) /\ LacksRequiredRole)
          => /\ authResult.out.raised
             /\ authResult.out.status_code = HTTP_403_FORBIDDEN

\* A verified token without admin asked for another identity that does not
\* exist and was answered 403.
C23_Witness ==
    /\ authResult.op = "get_user"
    /\ VerifiedAccess(credentials, authResult.at)
    /\ credentials.roles = {"user"}
    /\ authResult.user_id # credentials.sub
    /\ ~authResult.exists
    /\ authResult.out.raised
    /\ authResult.out.status_code = HTTP_403_FORBIDDEN

\* An expired access token of an administrator asked for an identity that
\* does not exist and was answered 401.
C23_ExpiredAbsentTarget ==
    /\ authResult.op = "get_user"
    /\ credentials.present
    /\ credentials.sig = "valid"
    /\ credentials.type = "access"
    /\ "admin" \in credentials.roles
    /\ authResult.at > credentials.exp * TicksPerSecond
    /\ ~authResult.exists
    /\ authResult.out.status_code = HTTP_401_UNAUTHORIZED

(***************************************************************************)
(* Claims about the account guard (SpecGuard).                             *)
(***************************************************************************)
\* The call found a non-deleted identity and got as far as checking the
\* password, which was wrong.
FailedCheck ==
    /\ lastAuth.op = "authenticate"
    /\ lastAuth.before # NoUser
    /\ lastAuth.password_checked
    /\ ~verify_password(lastAuth.password, lastAuth.before.password_hash)

\* C4: the fifth consecutive failed password check locks the identity until
\* exactly 30 minutes after that failure, keeps the counter at 5 and
\* persists both, at whatever minute of the hour the failure happens.
C4_FifthFailureLocksFor30Minutes ==
    (FailedCheck /\ lastAuth.before.failed_login_attempts = LOCK_THRESHOLD - 1)
    => (/\ lastAuth.outcome = "None"
        /\ lastAuth.after.failed_login_attempts = LOCK_THRESHOLD
        /\ lastAuth.after.locked_until = lastAuth.at + LOCK_MINUTES
        /\ lastAuth.after \in users[GuardSchema])

\* C5: an attempt on a locked identity before the lockout expiry fails
\* without the password being checked and changes neither the counter nor
\* the expiry, whatever password is given.
C5_LockedAttemptFailsUnchanged ==
    (/\ lastAuth.op = "authenticate"
     /\ lastAuth.before # NoUser
     /\ lastAuth.before.locked_until # NullTime
     /\ lastAuth.at < lastAuth.before.locked_until)
    => (/\ lastAuth.outcome = "None"
        /\ ~lastAuth.password_checked
        /\ lastAuth.after = lastAuth.before
        /\ lastAuth.before \in users[GuardSchema])

\* The correct password was refused inside the lockout window.
C5_Witness ==
    /\ lastAuth.op = "authenticate"
    /\ lastAuth.before # NoUser
    /\ lastAuth.before.is_active
    /\ lastAuth.before.failed_login_attempts = LOCK_THRESHOLD
    /\ lastAuth.at < lastAuth.before.locked_until
    /\ verify_password(lastAuth.password, lastAuth.before.password_hash)
    /\ lastAuth.outcome = "None"

\* C6: with no lockout in force (none set, or its expiry reached) the correct
\* password of an active identity succeeds, and every success stores a zero
\* counter and no lockout expiry.
C6_SuccessAfterExpiryResets ==
    lastAuth.op = "authenticate" =>
      /\ (/\ lastAuth.before # NoUser
          /\ lastAuth.before.is_active
          /\ verify_password(lastAuth.password, lastAuth.before.password_hash)
          /\ (lastAuth.before.locked_until = NullTime
                \/ lastAuth.before.locked_until <= lastAuth.at))
         => lastAuth.outcome = "user"
      /\ lastAuth.outcome = "user" =>
           /\ lastAuth.after.failed_login_attempts = 0
           /\ lastAuth.after.locked_until = NullTime
           /\ lastAuth.after \in users[GuardSchema]

(***************************************************************************)
(* Claims about the tenant context (SpecContext).                          *)
(***************************************************************************)
\* C2: what a request's handler reads as the current tenant is unset (None)
\* or the value that request's own dispatch stored, never the value of a
\* concurrently handled request.
C2_NoCrossRequestLeak ==
    \A r \in Requests :
        (inflight[r].pc # "idle" /\ inflight[r].observed # Unset)
        => \/ inflight[r].observed = None
           \/ inflight[r].observed = inflight[r].state_tenant_id

\* A request read its own tenant while another request, still being
\* handled, had a different tenant set.
C2_Witness ==
    \E a, b \in Requests :
        /\ a # b
        /\ inflight[a].pc = "call_next"
        /\ current_tenant_id[a] = "acme"
        /\ inflight[b].pc = "returned"
        /\ inflight[b].observed = "globex"
        /\ inflight[b].state_tenant_id = "globex"

\* The request's dispatch stored a tenant for it.
SetTenantContext(r) ==
    /\ inflight[r].pc # "idle"
    /\ inflight[r].state_tenant_id \notin {Unset, None}

\* C17: once a request that set the tenant context has left dispatch,
\* whether its handler returned or raised, the current-tenant value of that
\* request reads as unset.
C17_ContextUnsetAfterCompletion ==
    \A r \in Requests :
        (SetTenantContext(r) /\ inflight[r].pc = "done")
        => get_current_tenant(current_tenant_id, r) = None

\* The two halves of C17 that hold: the value is unset after a handler that
\* returned, and a request never starts with a tenant already set.
C17_UnsetAfterReturnAndAtStart ==
    [][\A r \in Requests :
         /\ (SetTenantContext(r) /\ inflight[r].pc = "returned"
             /\ inflight'[r].pc = "done")
            => get_current_tenant(current_tenant_id', r) = None
         /\ (inflight[r].pc = "idle" /\ inflight'[r].pc = "dispatch")
            => get_current_tenant(current_tenant_id', r) = None]_vars

\* The paths the allow-list names: the root itself, and the health,
\* documentation, login, registration and token-refresh paths.
AllowListed(path) ==
    \/ path = RootPath
    \/ \E public_path \in PUBLIC_PATHS \ {RootPath} :
           StartsWith(path, public_path)

\* C18: when the downstream handler is about to run, a request whose path is
\* not allow-listed has been through tenant extraction, and a tenant that
\* was found is stored for it; a request skips extraction only when its
\* path is allow-listed.
C18_ExtractionUnlessAllowListed ==
    \A r \in Requests :
        inflight[r].pc = "call_next"
        => LET request == inflight[r].request
               tenant_id == _extract_tenant(request, MinuteTicks(now))
           IN  IF AllowListed(request.path)
               THEN TRUE
               ELSE /\ ~inflight[r].bare
                    /\ tenant_id # None
                       => /\ inflight[r].state_tenant_id = tenant_id
                          /\ get_current_tenant(current_tenant_id, r) = tenant_id

\* The part of C18 that holds: allow-listed paths skip extraction.
C18_AllowListedSkipsExtraction ==
    \A r \in Requests :
        (inflight[r].pc = "call_next" /\ AllowListed(inflight[r].request.path))
        => /\ inflight[r].bare
           /\ inflight[r].state_tenant_id = Unset

\* What each source of a request yields: the tenant claim of a bearer token
\* that is present, validly signed and not expired; the X-Tenant-ID header;
\* the leading label of a dotted Host that is not a reserved label.
TokenYields(request) ==
    IF /\ request.authorization.present
       /\ request.authorization.sig = "valid"
       /\ request.authorization.exp >= now * SecondsPerMinute
    THEN {request.authorization.tenant_id} \ {""}
    ELSE {}

HeaderYields(request) == {request.x_tenant_id} \ {None, ""}

HostYields(request) ==
    IF Len(request.host) > 1
    THEN {request.host[1]} \ ({""} \cup ReservedSubdomains)
    ELSE {}

Extracted(r) ==
    /\ inflight[r].pc \in {"call_next", "returned", "raised", "done"}
    /\ ~inflight[r].bare

\* C19: the tenant extracted for a request is what its token yields; failing
\* that, what its X-Tenant-ID header yields; failing that, what its Host
\* yields; failing that, none.
C19_FirstMatchInOrder ==
    \A r \in Requests :
        Extracted(r)
        => LET request == inflight[r].request
               tenant_id == inflight[r].state_tenant_id
           IN  IF TokenYields(request) # {}
               THEN tenant_id \in TokenYields(request)
               ELSE IF HeaderYields(request) # {}
               THEN tenant_id \in HeaderYields(request)
               ELSE IF HostYields(request) # {}
               THEN tenant_id \in HostYields(request)
               ELSE tenant_id = None

\* One request resolved to its token's tenant although its header named
\* another, while a second one, whose token is rejected and which has no
\* header, resolved to its host's leading label.
C19_Witness ==
    \E a, b \in Requests :
        /\ Extracted(a)
        /\ TokenYields(inflight[a].request) = {"acme"}
        /\ HeaderYields(inflight[a].request) = {"globex"}
        /\ inflight[a].state_tenant_id = "acme"
        /\ Extracted(b)
        /\ inflight[b].request.authorization.present
        /\ TokenYields(inflight[b].request) = {}
        /\ HeaderYields(inflight[b].request) = {}
        /\ inflight[b].state_tenant_id = "globex"

\* An expired token is passed over for the header.
C19_ExpiredTokenFallsThrough ==
    \E r \in Requests :
        /\ Extracted(r)
        /\ inflight[r].request.authorization = BearerAcme
        /\ inflight[r].state_tenant_id = "globex"

(***************************************************************************)
(* Claims about tenant provisioning (SpecProvision).                       *)
(***************************************************************************)
RowsOfSlug(slug) == {row \in tenants : row.slug = slug}

\* C1: once a run has failed in a step after the Tenant-row insert
\* (partition / RBAC creation, administrator creation), the directory holds
\* no Tenant row for its slug.
C1_FailureAfterInsertLeavesNoTenantRow ==
    \A p \in Runs :
        (/\ runs[p].pc = "failed"
         /\ runs[p].failed_at \in {"create_schema", "create_admin"})
        => RowsOfSlug(runs[p].data.tenant_slug) = {}

\* The run lost on the slug: its INSERT met the UNIQUE constraint.
LostOnSlug(p) ==
    /\ runs[p].pc = "failed"
    /\ runs[p].failed_at = "create_flush"
    /\ runs[p].error = "IntegrityError"

\* Run p has got through every storage step of register_tenant: its Tenant
\* and TenantSettings rows, the partition and its administrator are committed.
Provisioned(p) ==
    \/ runs[p].pc \in {"issue_tokens", "done"}
    \/ runs[p].pc = "failed" /\ runs[p].failed_at = "issue_tokens"

\* Nothing in the directory or in the partition of its slug comes from run p.
AddedNothing(p) ==
    /\ \A row \in tenants : row.id # TenantId(p)
    /\ \A ts \in tenant_settings : ts.tenant_id # TenantId(p)
    /\ \A u \in users[SchemaOf(runs[p].data.tenant_slug)] : u.id # UserId(p)

\* C9: a run whose slug is already in the directory ends at its INSERT with
\* one error response and changes nothing: the Tenant row, its settings,
\* the partition with its roles and its identities stay as they were, and
\* no second row for the slug appears.
C9_ExistingSlugFailsAndChangesNothing ==
    /\ [][\A p \in Runs :
            (/\ runs[p].pc = "create_flush"
             /\ RowsOfSlug(runs[p].data.tenant_slug) # {}
             /\ runs'[p] # runs[p])
            => (/\ runs'[p].pc = "failed"
                /\ runs'[p].status_code = HTTP_400_BAD_REQUEST
                /\ tenants' = tenants
                /\ tenant_settings' = tenant_settings
                /\ schemas' = schemas
                /\ users' = users)]_vars
    /\ [](\A p \in Runs :
            LostOnSlug(p) =>
              /\ AddedNothing(p)
              /\ Cardinality(RowsOfSlug(runs[p].data.tenant_slug)) = 1)

\* A tenant was provisioned completely and a later run with its slug was
\* refused.
C9_Witness ==
    \E p, q \in Runs :
        /\ Provisioned(q)
        /\ LostOnSlug(p)
        /\ runs[p].data.tenant_slug = runs[q].data.tenant_slug
        /\ \E u \in users[SchemaOf(runs[q].data.tenant_slug)] : u.id = UserId(q)

\* C10: of the runs for one slug at most one succeeds (and at most one gets
\* through every storage step), the directory never holds two rows for the
\* slug, and the tenant then consists of exactly what that one run created:
\* its row, its settings row, the seed roles and its administrator
\* identity; a run that lost on the slug has added nothing.
C10_SameSlugAtMostOneWinner ==
    \A slug \in Slugs :
        LET won == {p \in Runs : runs[p].pc = "done"
                                    /\ runs[p].data.tenant_slug = slug}
            made == {p \in Runs : Provisioned(p)
                                     /\ runs[p].data.tenant_slug = slug}
            rows == RowsOfSlug(slug)
        IN  /\ Cardinality(won) <= 1
            /\ Cardinality(made) <= 1
            /\ Cardinality(rows) <= 1
            /\ \A p \in won \cup made :
                 /\ \A row \in rows : row.id = TenantId(p)
                 /\ {ts \in tenant_settings :
                       \E row \in rows : ts.tenant_id = row.id}
                      = {NewTenantSettings(TenantId(p))}
                 /\ schemas[SchemaOf(slug)].roles = SeedRoles
                 /\ Cardinality(users[SchemaOf(slug)]) = 1
                 /\ \A u \in users[SchemaOf(slug)] :
                      u.id = UserId(p) /\ u.roles = {"admin"}
            /\ \A p \in Runs :
                 (LostOnSlug(p) /\ runs[p].data.tenant_slug = slug)
                 => AddedNothing(p)

\* Two runs for one slug overlapped: one was refused on the slug while the
\* other, which holds the row, was still running with its administrator
\* already committed.
C10_Witness ==
    \E p, q \in Runs :
        /\ p # q
        /\ runs[p].data.tenant_slug = runs[q].data.tenant_slug
        /\ LostOnSlug(q)
        /\ runs[p].pc = "issue_tokens"

\* What a run that got through every storage step has left in storage.
ProvisionedStorage(p) ==
    LET slug == runs[p].data.tenant_slug IN
    /\ RowsOfSlug(slug) =
         {[NewTenant(TenantId(p), slug) EXCEPT !.schema_created = TRUE]}
    /\ {ts \in tenant_settings : ts.tenant_id = TenantId(p)}
         = {NewTenantSettings(TenantId(p))}
    /\ schemas[SchemaOf(slug)].exists
    /\ schemas[SchemaOf(slug)].roles = SeedRoles
    /\ \E u \in users[SchemaOf(slug)] :
         /\ users[SchemaOf(slug)] = {u}
         /\ u.id = UserId(p)
         /\ u.is_superuser /\ u.is_verified
         /\ u.roles = {"admin"}

\* The run ended in an error that storage produced: the slug conflict or a
\* failed statement.
FailedInStorage(p) ==
    /\ runs[p].pc = "failed"
    /\ runs[p].error \in {"IntegrityError", "OperationalError"}

\* C11: a run that has returned, and met neither a slug conflict nor a
\* storage failure, has left one Tenant row with schema_created true, one
\* TenantSettings row, the partition with the seed roles and one
\* administrator (superuser, verified, admin role), and has returned 201
\* with an access/refresh pair for that administrator.
C11_RunWithoutFailureSucceeds ==
    \A p \in Runs :
        (runs[p].pc \in {"done", "failed"} /\ ~FailedInStorage(p))
        => /\ ProvisionedStorage(p)
           /\ runs[p].pc = "done"
           /\ runs[p].status_code = HTTP_201_CREATED
           /\ runs[p].tokens.access_token.sub = UserId(p)
           /\ runs[p].tokens.access_token.type = "access"
           /\ runs[p].tokens.refresh_token.sub = UserId(p)
           /\ runs[p].tokens.refresh_token.type = "refresh"

\* The storage half of C11 taken alone: it holds of every such run.
C11_StorageAfterRun ==
    \A p \in Runs :
        (runs[p].pc \in {"done", "failed"} /\ ~FailedInStorage(p))
        => ProvisionedStorage(p)

\* C12: every partition that exists holds both seed roles, admin and user,
\* and has a Tenant row in the directory naming it; this holds in every
\* state, so also after a run has returned with success or with a failure
\* at any step.
C12_NoPartitionWithoutSeedOrTenantRow ==
    \A s \in SchemaNames :
        schemas[s].exists =>
            /\ SeedRoles \subseteq schemas[s].roles
            /\ TenantTables \subseteq schemas[s].tables
            /\ \E row \in tenants : row.schema_name = s

\* A run has returned with a failure after its partition was created, and
\* another has returned with a failure while creating its partition.
C12_Witness ==
    \E p, q \in Runs :
        /\ runs[p].pc = "failed"
        /\ runs[p].failed_at \in {"create_admin", "issue_tokens"}
        /\ schemas[SchemaOf(runs[p].data.tenant_slug)].exists
        /\ runs[q].pc = "failed"
        /\ runs[q].failed_at = "create_schema"
        /\ ~schemas[SchemaOf(runs[q].data.tenant_slug)].exists

(***************************************************************************)
(* Claims about login and token refresh (SpecLogin).                       *)
(***************************************************************************)
\* The response of the login or refresh that has just been answered
\* carries a token pair.
IssuedTokens ==
    /\ authResult.op \in {"login", "refresh"}
    /\ authResult.tokens # NoTokens

\* C13: whenever login or refresh issues a token pair, the tenant it is
\* issued against has schema_created true.
C13_NoTokensForUnprovisionedTenant ==
    IssuedTokens =>
        /\ authResult.tenant # NoTenant
        /\ authResult.tenant.schema_created

\* A correctly signed, unexpired refresh token naming a tenant whose
\* schema_created is false was presented, and no tokens came back.
C13_Witness ==
    /\ authResult.op = "refresh"
    /\ verify_token(authResult.token, "refresh", MinuteTicks(authResult.at))
         # NoPayload
    /\ authResult.tenant # NoTenant
    /\ authResult.tenant.is_active
    /\ ~authResult.tenant.schema_created
    /\ authResult.tokens = NoTokens

\* Token pairs are issued at all: a refresh against a provisioned tenant.
C13_RefreshIssues ==
    /\ authResult.op = "refresh"
    /\ authResult.tokens # NoTokens
    /\ authResult.tenant.schema_created

\* The login's triple matches a non-deleted, active, non-locked identity in
\* an active tenant.
MatchingTriple ==
    /\ authResult.op = "login"
    /\ authResult.tenant # NoTenant
    /\ authResult.tenant.is_active
    /\ authResult.before # NoUser
    /\ authResult.before.is_active
    /\ ~authResult.before.is_deleted
    /\ ~(authResult.before.locked_until # NullTime
           /\ authResult.before.locked_until > authResult.at)
    /\ verify_password(authResult.password, authResult.before.password_hash)

\* C14: a login whose triple matches succeeds with a token pair whose tenant
\* claim is the tenant's slug and whose access-token roles are the
\* identity's stored role codes; any other login fails and issues no tokens.
C14_LoginMatchesStoredIdentity ==
    authResult.op = "login" =>
        IF MatchingTriple
        THEN /\ authResult.status_code = HTTP_200_OK
             /\ authResult.tokens # NoTokens
             /\ authResult.tokens.access_token.tenant_id = authResult.tenant.slug
             /\ authResult.tokens.refresh_token.tenant_id = authResult.tenant.slug
             /\ authResult.tokens.access_token.sub = authResult.before.id
             /\ authResult.tokens.access_token.roles = authResult.before.roles
        ELSE /\ authResult.status_code # HTTP_200_OK
             /\ authResult.tokens = NoTokens

\* The failure half of C14 taken alone: it holds of every login.
C14_MismatchIssuesNoTokens ==
    (authResult.op = "login" /\ ~MatchingTriple)
    => (authResult.status_code # HTTP_200_OK /\ authResult.tokens = NoTokens)

\* C15: every login that fails for one of the listed causes (tenant missing,
\* unknown or inactive; username unknown; password wrong, the attempt that
\* reaches the lockout threshold included; identity inactive or locked) is
\* answered with 401 and the one generic message.  Logins against a tenant
\* whose partition is missing are left aside.
C15_FailedLoginsIndistinguishable ==
    (/\ authResult.op = "login"
     /\ ~MatchingTriple
     /\ authResult.error # "ProgrammingError")
    => /\ authResult.status_code = HTTP_401_UNAUTHORIZED
       /\ authResult.detail = "Invalid credentials or tenant"

\* The identities of the partition of tenant `slug` that are soft-deleted.
SoftDeleted(slug) ==
    IF slug \in Slugs THEN {u \in users[SchemaOf(slug)] : u.is_deleted} ELSE {}

\* C21: no lookup by id, email or username and no listing returns a
\* soft-deleted identity; a login that names a soft-deleted identity of the
\* tenant, and a refresh whose token's subject is one, are answered 401 and
\* issue no tokens.
C21_SoftDeletedExcluded ==
    /\ authResult.op = "lookup"
       => \A row \in authResult.rows : ~row.is_deleted
    /\ (/\ authResult.op = "login"
        /\ \E u \in SoftDeleted(authResult.tenant_slug) :
               authResult.username \in {u.username, u.email})
       => /\ authResult.status_code = HTTP_401_UNAUTHORIZED
          /\ authResult.tokens = NoTokens
    /\ (/\ authResult.op = "refresh"
        /\ \E u \in SoftDeleted(authResult.token.tenant_id) :
               authResult.token.sub = u.id)
       => /\ authResult.status_code = HTTP_401_UNAUTHORIZED
          /\ authResult.tokens = NoTokens

\* A valid refresh token of a soft-deleted but still active identity of an
\* active tenant was refused.
C21_Witness ==
    /\ authResult.op = "refresh"
    /\ authResult.token = SignedRefreshToken(UserId(1), "acme", 90)
    /\ authResult.tenant # NoTenant
    /\ authResult.tenant.is_active
    /\ \E u \in SoftDeleted("acme") : u.id = UserId(1) /\ u.is_active
    /\ authResult.status_code = HTTP_401_UNAUTHORIZED
    /\ authResult.tokens = NoTokens

\* The lookup by id of a soft-deleted identity returned nothing, and so did
\* the listing.
C21_LookupOfDeleted ==
    /\ authResult.op = "lookup"
    /\ authResult.by \in {"id", "list"}
    /\ authResult.schema = SchemaOf("acme")
    /\ SoftDeleted("acme") # {}
    /\ authResult.rows = {}

(***************************************************************************)
(* Claims about sessions and the connection pool (SpecPool).               *)
(***************************************************************************)
\* C20: every tenant-scoped statement of a request runs after the request's
\* session was bound to a partition, and runs against the partition of the
\* request's tenant; this includes the statements that follow a commit
\* within the request, with requests of other tenants running concurrently.
C20_EveryAccessOnOwnPartition ==
    \A r \in Requests :
        sessions[r].pc > 0
        => \A a \in sessions[r].accessed :
               /\ a.bound
               /\ a.partition = SchemaOf(sessions[r].tenant)

\* The part of C20 that holds: the statements between a binding SET and the
\* next commit run against the tenant's partition.
C20_OwnPartitionUntilCommit ==
    \A r \in Requests :
        sessions[r].pc > 0
        => \A a \in sessions[r].accessed :
               /\ a.bound
               /\ (a.stmts \cap {"refresh", "get_by_id (reload)"} = {})
                  => a.partition = SchemaOf(sessions[r].tenant)

\* A request of one tenant ran a statement against another tenant's
\* partition.
C20_ForeignPartitionAccess ==
    \E r \in Requests :
        /\ sessions[r].pc > 0
        /\ \E a \in sessions[r].accessed :
               a.partition \in SchemaNames \ {SchemaOf(sessions[r].tenant)}

\* The token presented to the last refresh is a correctly signed, unexpired
\* refresh token, its tenant exists and is active, and its subject is a
\* non-deleted, active identity of that tenant's partition.
RefreshEligible ==
    /\ authResult.token.sig = "valid"
    /\ authResult.token.type = "refresh"
    /\ MinuteTicks(authResult.at) <= authResult.token.exp * TicksPerSecond
    /\ \E row \in tenants :
         /\ row.slug = authResult.token.tenant_id
         /\ row.is_active
         /\ \E u \in users[row.schema_name] :
              /\ u.id = authResult.token.sub
              /\ ~u.is_deleted
              /\ u.is_active

\* The token names no tenant of the directory or a tenant whose partition
\* exists: tokens are issued by login, refresh and registration only, all
\* of which read the tenant's partition first, and no operation drops a
\* partition.
TokenOfIssuingTenant ==
    \A row \in tenants :
        row.slug = authResult.token.tenant_id => schemas[row.schema_name].exists

C24_TokenOfStuckTenant ==
    /\ authResult.op = "refresh"
    /\ ~TokenOfIssuingTenant
    /\ authResult.status_code = HTTP_500_INTERNAL_SERVER_ERROR
    /\ authResult.tokens = NoTokens

(***************************************************************************)
(* Claims about identity administration (SpecUsers).                       *)
(***************************************************************************)
\* The rows of the table, deleted or not as asked, that share the email or
\* the username of the data.
Clashing(table, data, deleted) ==
    {r \in table : /\ r.is_deleted = deleted
                   /\ (r.email = data.email \/ r.username = data.username)}

\* C22: a create_user request whose email or username is that of a
\* non-deleted identity of the partition is rejected and stores nothing; any
\* other one, one that shares its email or username with soft-deleted
\* identities only included, succeeds and stores the new identity.
C22_UniqueAmongNonDeletedOnly ==
    authResult.op = "create_user"
    => IF Clashing(authResult.before, authResult.data, FALSE) # {}
       THEN /\ authResult.status_code = HTTP_400_BAD_REQUEST
            /\ users[SchemaOf("acme")] = authResult.before
       ELSE /\ authResult.status_code = HTTP_201_CREATED
            /\ authResult.user \in users[SchemaOf("acme")]
            /\ authResult.user.email = authResult.data.email
            /\ authResult.user.username = authResult.data.username

\* The half of C22 that holds: a clash with a non-deleted identity is
\* rejected with 400, and a request that clashes with no row at all succeeds.
C22_LiveClashRejected ==
    authResult.op = "create_user"
    => /\ Clashing(authResult.before, authResult.data, FALSE) # {}
          => /\ authResult.status_code = HTTP_400_BAD_REQUEST
             /\ users[SchemaOf("acme")] = authResult.before
       /\ (/\ Clashing(authResult.before, authResult.data, FALSE) = {}
           /\ Clashing(authResult.before, authResult.data, TRUE) = {})
          => authResult.status_code = HTTP_201_CREATED

(***************************************************************************)
(* Claims about role changes and issued tokens (SpecRoles).                *)
(***************************************************************************)
\* The role codes the partition stores for the subject of the held token.
StoredRoles == get_by_id(users[SchemaOf("acme")], UserId(1)).roles

\* The held access token has not expired.
HeldTokenLive ==
    /\ credentials.present
    /\ now * SecondsPerMinute <= credentials.exp

\* C25: a role-protected endpoint decides by the role set in the access
\* token and by nothing else until the token expires, after which it answers
\* 401; a token pair issued by a refresh carries the role set stored at that
\* moment; so a live access token whose role set differs from the stored
\* one exists only within one access-token lifetime of the last role change.
C25_RolesStaleUntilExpiryOrRefresh ==
    /\ authResult.op = "authorize"
       => IF authResult.at * SecondsPerMinute <= credentials.exp
          THEN ~authResult.out.raised
               <=> \/ "admin" \in credentials.roles
                   \/ authResult.required_roles \cap credentials.roles # {}
          ELSE /\ authResult.out.raised
               /\ authResult.out.status_code = HTTP_401_UNAUTHORIZED
    /\ (authResult.op = "refresh" /\ authResult.tokens # NoTokens)
       => authResult.tokens.access_token.roles = StoredRoles
    /\ (HeldTokenLive /\ credentials.roles # StoredRoles)
       => /\ lastAuth.op = "update_roles"
          /\ now - lastAuth.at <= ACCESS_TOKEN_EXPIRE_MINUTES

\* The administrator role was taken from the identity, and its access token
\* issued before that still passed a check requiring admin.
C25_Witness ==
    /\ authResult.op = "authorize"
    /\ authResult.required_roles = {"admin"}
    /\ credentials.roles = {"admin"}
    /\ StoredRoles = {"user"}
    /\ lastAuth.op = "update_roles"
    /\ authResult.at > lastAuth.at
    /\ ~authResult.out.raised

\* After the role change a refresh issued a pair with the new role set
\* while the old access token was still live.
C25_RefreshPicksUpChange ==
    /\ authResult.op = "refresh"
    /\ lastAuth.op = "update_roles"
    /\ StoredRoles = {"user"}
    /\ authResult.tokens # NoTokens
    /\ authResult.tokens.access_token.roles = {"user"}
    /\ authResult.at - lastAuth.at < ACCESS_TOKEN_EXPIRE_MINUTES

(***************************************************************************)
(* Claims about the tenant directory (SpecTenants).                        *)
(***************************************************************************)
\* Every row's partition name is the prefix followed by its slug, and no
\* two rows share a slug.
PartitionNamedAfterSlug ==
    /\ \A row \in tenants : row.schema_name = SchemaOf(row.slug)
    /\ \A a, b \in tenants : a.slug = b.slug => a = b

\* Every row is still there after the step, with its slug and its
\* partition name.
SlugAndPartitionKept ==
    \A row \in tenants :
      \E after \in tenants' : /\ after.id = row.id
                              /\ after.slug = row.slug
                              /\ after.schema_name = row.schema_name

\* C26: in every state each tenant's partition name is the fixed prefix
\* followed by its slug and slugs are pairwise distinct, and no step
\* (tenant update, deactivation, settings update, partition creation)
\* changes the slug or the partition name of an existing tenant.
C26_SlugAndPartitionNameFixed ==
    []PartitionNamedAfterSlug /\ [][SlugAndPartitionKept]_vars

\* A tenant update whose body named another slug and partition was
\* answered 200 with both tenants in the directory, one deactivated.
C26_Witness ==
    /\ authResult.op = "update_tenant"
    /\ authResult.status_code = HTTP_200_OK
    /\ {"slug", "schema_name", "is_active"} \subseteq authResult.body.keys
    /\ \E row \in tenants : /\ row.id = authResult.tenant_id
                            /\ row.slug # authResult.body.slug
                            /\ row.is_active = authResult.body.is_active
                            /\ row.schema_created
    /\ Cardinality(tenants) = 2
    /\ \E ts \in tenant_settings : ts.ui_theme = "dark"

(***************************************************************************)
(* Claims about permission checks and platform routes (SpecToken).         *)
(***************************************************************************)
\* C27: require_permissions allows a verified access token exactly when its
\* role set contains admin, whatever permissions are required, and denies
\* every other verified token with 403.
C27_PermissionsReduceToAdmin ==
    (/\ authResult.op = "require_permissions"
     /\ VerifiedAccess(credentials, authResult.at))
    => IF "admin" \in credentials.roles
       THEN /\ ~authResult.out.raised
            /\ authResult.out.value.roles = credentials.roles
       ELSE /\ authResult.out.raised
            /\ authResult.out.status_code = HTTP_403_FORBIDDEN

\* A verified token holding roles but not admin was denied a permission
\* check with 403.
C27_Witness ==
    /\ authResult.op = "require_permissions"
    /\ VerifiedAccess(credentials, authResult.at)
    /\ credentials.roles = {"user", "manager"}
    /\ authResult.required_permissions = {"users.read"}
    /\ authResult.out.raised
    /\ authResult.out.status_code = HTTP_403_FORBIDDEN

\* A verified admin token passed a check that requires nothing.
C27_AdminPassesEmpty ==
    /\ authResult.op = "require_permissions"
    /\ VerifiedAccess(credentials, authResult.at)
    /\ credentials.roles = {"admin"}
    /\ authResult.required_permissions = {}
    /\ ~authResult.out.raised

\* C29: a platform tenant route lets a verified token through only when it
\* holds superadmin; every verified token without superadmin gets 403.
C29_PlatformOnlySuperadmin ==
    (/\ authResult.op = "platform"
     /\ VerifiedAccess(credentials, authResult.at))
    => IF "superadmin" \in credentials.roles
       THEN ~authResult.out.raised
       ELSE /\ authResult.out.raised
            /\ authResult.out.status_code = HTTP_403_FORBIDDEN

\* What the routes do: superadmin or admin passes, every other verified
\* token gets 403.
C29_SuperadminOrAdminPasses ==
    (/\ authResult.op = "platform"
     /\ VerifiedAccess(credentials, authResult.at))
    => IF credentials.roles \cap {"superadmin", "admin"} # {}
       THEN ~authResult.out.raised
       ELSE /\ authResult.out.raised
            /\ authResult.out.status_code = HTTP_403_FORBIDDEN

\* A tenant administrator's token, without superadmin, was let through to
\* delete_tenant.
C29_AdminReachesPlatformRoute ==
    /\ authResult.op = "platform"
    /\ authResult.route = "delete_tenant"
    /\ VerifiedAccess(credentials, authResult.at)
    /\ credentials.roles = {"admin"}
    /\ ~authResult.out.raised

(***************************************************************************)
(* Claims about extraction on arbitrary headers (SpecExtract).             *)
(***************************************************************************)
\* The Authorization header carries a correctly signed, unexpired token
\* that lacks the sub, tenant_id or exp claim.
SignedLackingClaim(request, t) ==
    LET token == request.authorization IN
    /\ token.present
    /\ token.sig = "valid"
    /\ {"sub", "tenant_id", "exp"} \ DOMAIN token # {}
    /\ "exp" \in DOMAIN token => ~(token.exp < SecondsOf(t))

\* C28: tenant extraction never raises; for every Authorization content,
\* X-Tenant-ID value and Host value it returns a tenant identifier or none.
C28_ExtractionNeverRaises ==
    authResult.op = "extract_tenant" => ~authResult.out.raised

\* Extraction raises exactly for a correctly signed, unexpired token that
\* lacks one of the three claims, and returns in every other case.
C28_RaisesExactlyForLackingClaim ==
    authResult.op = "extract_tenant"
    => (authResult.out.raised
        <=> SignedLackingClaim(inflight[1].request, MinuteTicks(now)))

\* A correctly signed token without exp made extraction raise TypeError
\* although X-Tenant-ID named a tenant.
C28_LackingExpRaises ==
    /\ authResult.op = "extract_tenant"
    /\ inflight[1].request.authorization = WithoutClaim(BearerAcme, "exp")
    /\ inflight[1].request.x_tenant_id = "globex"
    /\ authResult.out.raised
    /\ authResult.out.error = "TypeError"

(***************************************************************************)
(* Claims about the tenant of a login request (SpecLogin).                 *)
(***************************************************************************)
\* The request names, by X-Tenant-ID or by the first label of its host, an
\* active tenant whose partition holds an active, unlocked identity the
\* body's credentials match.
TransportNamesMatchingTenant ==
    LET request == authResult.request
        slug == _extract_tenant(request, MinuteTicks(authResult.at))
    IN  /\ slug # None
        /\ \E tenant \in tenants :
             /\ tenant.slug = slug
             /\ tenant.is_active
             /\ tenant.schema_created
             /\ \E user \in users[tenant.schema_name] :
                  /\ user.username = authResult.body.username
                  /\ verify_password(authResult.body.password, user.password_hash)
                  /\ ~user.is_deleted
                  /\ user.is_active
                  /\ user.locked_until = NullTime

\* C30: a login that omits the tenant in the body, carries valid
\* credentials and names an active tenant by X-Tenant-ID or by subdomain
\* succeeds with a token pair.
C30_LoginByHeaderOrSubdomainSucceeds ==
    (/\ authResult.op = "login_transport"
     /\ authResult.body.tenant_slug = None
     /\ TransportNamesMatchingTenant)
    => /\ authResult.status_code = HTTP_200_OK
       /\ authResult.tokens # NoTokens

\* Every login without tenant_slug in the body is answered 401 and issues
\* no tokens, whatever the headers say, and no tenant was extracted for it.
C30_TenantOmittedInBodyFails ==
    (authResult.op = "login_transport" /\ authResult.body.tenant_slug = None)
    => /\ authResult.status_code = HTTP_401_UNAUTHORIZED
       /\ authResult.tokens = NoTokens
       /\ authResult.state_tenant_id = None

\* The administrator of acme logged in with X-Tenant-ID: acme on host
\* acme.wms.example.com, no tenant in the body, and got 401.
C30_HeaderAndSubdomainIgnored ==
    /\ authResult.op = "login_transport"
    /\ authResult.request.x_tenant_id = "acme"
    /\ authResult.request.host[1] = "acme"
    /\ TransportNamesMatchingTenant
    /\ authResult.status_code = HTTP_401_UNAUTHORIZED

(***************************************************************************)
(* Claims about tenant deactivation (SpecLogin).                           *)
(***************************************************************************)
\* The step is a tenant delete that leaves every row of the directory in
\* place, the target with its active flag cleared and nothing else changed,
\* and leaves settings, partitions and their identities and roles as they
\* were.
DeleteClearsFlagOnly ==
    (authResult'.op = "delete_tenant" /\ authResult' # authResult)
    => /\ tenants' = {IF row.id = authResult'.tenant_id
                      THEN [row EXCEPT !.is_active = FALSE] ELSE row :
                        row \in tenants}
       /\ Cardinality(tenants') = Cardinality(tenants)
       /\ tenant_settings' = tenant_settings
       /\ schemas' = schemas
       /\ users' = users

\* A login or refresh whose tenant is deactivated is answered 401 and
\* issues no tokens.
InactiveTenantRefused ==
    (/\ authResult.op \in {"login", "refresh"}
     /\ authResult.tenant # NoTenant
     /\ ~authResult.tenant.is_active)
    => /\ authResult.status_code = HTTP_401_UNAUTHORIZED
       /\ authResult.tokens = NoTokens

\* C31: a tenant delete only clears the active flag (row, settings,
\* partition, identities and roles stay as they are), and while the tenant
\* is inactive every login and token refresh for it fails.
C31_DeleteOnlyDeactivates ==
    [][DeleteClearsFlagOnly]_vars /\ []InactiveTenantRefused

\* The provisioned tenant acme was deleted: the answer is 200, its row is
\* there and inactive, with its settings, partition, roles and identity.
C31_Witness ==
    /\ authResult.op = "delete_tenant"
    /\ authResult.status_code = HTTP_200_OK
    /\ authResult.tenant_id = TenantId(1)
    /\ \E row \in tenants : /\ row.id = TenantId(1)
                            /\ ~row.is_active
                            /\ row.schema_created
    /\ \E ts \in tenant_settings : ts.tenant_id = TenantId(1)
    /\ schemas[SchemaOf("acme")].exists
    /\ schemas[SchemaOf("acme")].roles = SeedRoles
    /\ \E u \in users[SchemaOf("acme")] : u.id = UserId(1)

\* A valid refresh token of an active identity was refused while its
\* tenant was deactivated.
C31_RefreshRefused ==
    /\ authResult.op = "refresh"
    /\ authResult.token = SignedRefreshToken(UserId(1), "acme", 90)
    /\ authResult.tenant # NoTenant
    /\ ~authResult.tenant.is_active
    /\ \E u \in users[SchemaOf("acme")] :
         u.id = UserId(1) /\ ~u.is_deleted /\ u.is_active
    /\ authResult.status_code = HTTP_401_UNAUTHORIZED

(***************************************************************************)
(* Claims about the users routes and their callers (SpecManage).           *)
(***************************************************************************)
\* The step is a request made with the token of the identity it targets.
OwnRequest == authResult'.caller.sub = authResult'.user_id

\* C32: no request an identity makes on its own user id with its own token
\* (delete, deactivate, update) leaves that identity soft-deleted or
\* inactive: an identity that was live before the step is live after it.
C32_NoSelfDeactivationOrDeletion ==
    [][OwnRequest
       => \A u \in users[SchemaOf("acme")] :
            (u.id = authResult'.caller.sub /\ u.is_active /\ ~u.is_deleted)
            => \E v \in users'[SchemaOf("acme")] :
                 v.id = u.id /\ v.is_active /\ ~v.is_deleted]_vars

\* The same for the delete and deactivate routes alone, which answer an
\* own request of an administrator with 400 and change nothing.
C32_DeleteAndDeactivateRefuseSelf ==
    [][(OwnRequest /\ authResult'.op \in {"delete_user", "deactivate_user"})
       => /\ users' = users
          /\ authResult'.status_code
               \in {HTTP_400_BAD_REQUEST, HTTP_403_FORBIDDEN}]_vars

\* The administrator's update of its own id was answered 200 and left it
\* inactive.
C32_AdminDeactivatedItself ==
    /\ authResult.op = "update_user"
    /\ authResult.caller = [sub |-> UserId(1), roles |-> {"admin"}]
    /\ authResult.user_id = UserId(1)
    /\ authResult.status_code = HTTP_200_OK
    /\ \E u \in users[SchemaOf("acme")] : u.id = UserId(1) /\ ~u.is_active
    /\ \A u \in users[SchemaOf("acme")] : u.id # UserId(1) => u = Kim

\* Every row the table held is in the table after the step, unchanged but
\* for first_name of the caller's own row, and no row was added.
OnlyOwnProfileChanged ==
    LET before == users[SchemaOf("acme")]
        after == users'[SchemaOf("acme")]
    IN  /\ Cardinality(after) = Cardinality(before)
        /\ \A u \in before :
             \E v \in after :
               IF u.id = authResult'.caller.sub
               THEN v = [u EXCEPT !.first_name = v.first_name]
               ELSE v = u

\* C33: a request made with a token that does not hold admin changes at
\* most the profile fields (first_name here) of the caller's own identity:
\* it changes no role assignment, active flag, email or password, no field
\* of another identity, and creates and deletes nothing.
C33_NonAdminChangesOwnProfileOnly ==
    [][("admin" \notin authResult'.caller.roles) => OnlyOwnProfileChanged]_vars

\* kim, holding the user role only, renamed itself with 200; its roles,
\* active flag and email are as they were.
C33_Witness ==
    /\ authResult.op = "update_user"
    /\ authResult.caller = [sub |-> UserId(2), roles |-> {"user"}]
    /\ authResult.user_id = UserId(2)
    /\ authResult.status_code = HTTP_200_OK
    /\ [Kim EXCEPT !.first_name = "Renamed"] \in users[SchemaOf("acme")]

\* kim's update of the administrator's identity was refused with 403 while
\* the administrator's row is as provisioning left it.
C33_OtherIdentityRefused ==
    /\ authResult.op = "update_user"
    /\ authResult.caller = [sub |-> UserId(2), roles |-> {"user"}]
    /\ authResult.user_id = UserId(1)
    /\ authResult.status_code = HTTP_403_FORBIDDEN
    /\ \E u \in users[SchemaOf("acme")] :
         u.id = UserId(1) /\ u.first_name = "given" /\ u.is_active

(***************************************************************************)
(* Claims about concurrent failed logins (SpecRace).                       *)
(***************************************************************************)
\* The identity the requests are made for, as stored.
Alice == get_by_id(users[GuardSchema], UserId(0))

\* C34: every failed password check is counted, also when the checks run
\* concurrently: while the identity is not locked the stored counter equals
\* the number of failed checks that have completed, so at most 5 complete
\* before it is locked.
C34_EveryFailedCheckCounted ==
    /\ Alice.locked_until = NullTime
       => Alice.failed_login_attempts = lastAuth.completed
    /\ lastAuth.completed > LOCK_THRESHOLD => Alice.locked_until # NullTime

\* The counter never exceeds the number of completed failed checks.
C34_CounterAtMostChecks ==
    Alice.failed_login_attempts <= lastAuth.completed

\* Two failed checks that both read the counter 0 have completed and the
\* stored counter is 1.
C34_LostUpdate ==
    /\ lastAuth.completed = 2
    /\ Alice.failed_login_attempts = 1
    /\ authResult.op = "commit_attempt"
    /\ authResult.outcome = "None"
    /\ authResult.read = 0
    /\ \A r \in Requests : inflight[r].pc = "idle"

(***************************************************************************)
(* Claims about the partition of tenant-scoped requests (SpecScope).       *)
(***************************************************************************)
\* The request was handled with a verified access token.
HandledVerified(r) ==
    /\ inflight[r].pc = "done"
    /\ inflight[r].status_code = HTTP_200_OK

InsertsAfterFailureOf(p, q) ==
    /\ p # q
    /\ runs[p].pc = "failed"
    /\ runs[q].pc = "create_flush"
    /\ runs[q].data.tenant_slug = runs[p].data.tenant_slug
    /\ \A o \in Runs \ {p, q} : runs[o].pc = "idle"

\* C36: a run that makes its INSERT after a run for the same slug has
\* failed, no other run having asked for the slug, is not refused on the
\* slug: the failed run has not left the slug reserved.
C36_SlugFreeAfterFailedRun ==
    [][\A p, q \in Runs :
          (InsertsAfterFailureOf(p, q) /\ runs'[q].pc # "create_flush")
          => ~LostOnSlug(q)']_vars

\* Run p failed after TenantService.create had committed its Tenant row,
\* no other run has used the slug, and run q, asking for the same slug,
\* was refused by the UNIQUE constraint on p's row.
C36_SlugReservedByFailedRun ==
    \E p, q \in Runs :
        /\ runs[p].pc = "failed"
        /\ runs[p].failed_at \in {"create_schema", "create_admin", "issue_tokens"}
        /\ RowsOfSlug(runs[p].data.tenant_slug)
             = {row \in tenants : row.id = TenantId(p)}
        /\ LostOnSlug(q)
        /\ runs[q].data.tenant_slug = runs[p].data.tenant_slug
        /\ \A o \in Runs \ {p, q} : runs[o].pc = "idle"

\* A run is refused on its slug only while a committed Tenant row holds it.
C36_RefusedOnlyByCommittedRow ==
    \A q \in Runs :
        LostOnSlug(q) => RowsOfSlug(runs[q].data.tenant_slug) # {}

(***************************************************************************)
(* Claims about the counter after a lockout has expired (SpecGuard).       *)
(***************************************************************************)
\* The stored row carries a lockout whose expiry instant t has reached.
LockoutExpired(user, t) ==
    user.locked_until # NullTime /\ user.locked_until <= t

\* The step stores a zero counter where a nonzero one was stored.
CounterCleared ==
    \E u \in users[GuardSchema] :
        /\ u.failed_login_attempts > 0
        /\ \E v \in users'[GuardSchema] :
             v.id = u.id /\ v.failed_login_attempts = 0

\* Time passing and failed checks leave the counter of an identity with an
\* expired lockout at 5 or more; only a successful authentication or an
\* administrator's password reset stores zero.
C37_CounterKeptUntilSuccessOrReset ==
    /\ [](\A u \in users[GuardSchema] :
            LockoutExpired(u, now) => u.failed_login_attempts >= LOCK_THRESHOLD)
    /\ [][CounterCleared
            => \/ lastAuth'.op = "reset_password"
               \/ lastAuth'.op = "authenticate" /\ lastAuth'.outcome = "user"]_vars

\* A failed password check on an identity whose lockout has expired.
FailedCheckAfterExpiry ==
    /\ FailedCheck
    /\ LockoutExpired(lastAuth.before, lastAuth.at)

C37_NotLockedAgain ==
    /\ FailedCheckAfterExpiry
    /\ lastAuth.before.failed_login_attempts >= LOCK_THRESHOLD
    /\ lastAuth.outcome \in {"ValueError", "DataError"}
    /\ lastAuth.after = lastAuth.before
    /\ lastAuth.before \in users[GuardSchema]
    /\ ~IsLocked(lastAuth.before, lastAuth.at)

\* An administrator's reset has stored a zero counter and no lockout for
\* an identity whose counter had reached the threshold.
C37_ResetClears ==
    /\ lastAuth.op = "reset_password"
    /\ lastAuth.status_code = HTTP_200_OK
    /\ \E u \in users[GuardSchema] :
         u.failed_login_attempts = 0 /\ u.locked_until = NullTime

(***************************************************************************)
(* Claims about acceptance of a held access token (SpecAccept).            *)
(***************************************************************************)
\* The stored row of the identity the token names, deleted or not.
TokenIdentity(token) ==
    get_by_id_IncludingDeleted(users[SchemaOf(token.tenant_id)], token.sub)

\* C38: what GET /users answers to a held access token is fixed by the
\* token's signature, kind, expiry and roles and by the clock: 200 for a
\* verified token with the admin role, 403 for a verified token without
\* it, 401 otherwise, whatever storage holds about the identity and its
\* tenant.
C38_AcceptanceFromTokenAndClockOnly ==
    authResult.op = "list_users" =>
        authResult.status_code =
            IF VerifiedAccess(authResult.token, MinuteTicks(authResult.at))
            THEN IF "admin" \in authResult.token.roles
                 THEN HTTP_200_OK ELSE HTTP_403_FORBIDDEN
            ELSE HTTP_401_UNAUTHORIZED

\* The token was accepted as an administrator's after its identity had
\* lost its roles, been deactivated and soft-deleted, with a lockout in
\* force on it, and after its tenant had been deactivated.
C38_Witness ==
    /\ authResult.op = "list_users"
    /\ authResult.status_code = HTTP_200_OK
    /\ authResult.token.roles = {"admin"}
    /\ TokenIdentity(authResult.token).roles = {}
    /\ ~TokenIdentity(authResult.token).is_active
    /\ TokenIdentity(authResult.token).is_deleted
    /\ IsLocked(TokenIdentity(authResult.token), authResult.at)
    /\ \A row \in tenants : ~row.is_active

\* After its expiry the same token is refused.
C38_RefusedAfterExpiry ==
    /\ authResult.op = "list_users"
    /\ authResult.token.sig = "valid"
    /\ authResult.token.type = "access"
    /\ MinuteTicks(authResult.at) > authResult.token.exp * TicksPerSecond
    /\ authResult.status_code = HTTP_401_UNAUTHORIZED
    /\ TokenIdentity(authResult.token).is_active
    /\ \A row \in tenants : row.is_active

====
